---- MODULE Spec2Model ----
(***************************************************************************)
(* A model of the analytic engine's table lifecycle:                       *)
(*   - opening a table: manifest recovery and WAL replay                   *)
(*     (analytic_engine/src/instance/open.rs);                             *)
(*   - reference counted SST file handles and the background file purger   *)
(*     (analytic_engine/src/sst/file.rs);                                  *)
(*   - manual flush under the table's serial executor and drop table       *)
(*     (analytic_engine/src/instance/mod.rs, instance/drop.rs).            *)
(* Each part is a specification of its own over the shared variables; a    *)
(* specification leaves the variables of the other parts unchanged.        *)
(* Further parts: the file id counter of a recovered table                 *)
(* (Instance::recover_table_data), engine shutdown (Instance::close), and  *)
(* compaction with the reads around it (LevelHandler::pick_ssts).          *)
(***************************************************************************)
EXTENDS Integers, Sequences, FiniteSets, TLC

\* ------------------------------------------------------------------ bounds
\* Longest WAL of the table.
MaxWalLen == 3
\* Largest replay_batch_size tried.
MaxBatchSize == 2
\* Number of open_table calls issued for the table.
MaxOpens == 2
\* Number of entries in the active memtable at which should_flush_table
\* answers true (stands for write_buffer_size).
WriteBufferEntries == 2

\* Callers working on the table concurrently (manual flush, write, drop).
NumCallers == 2
\* Operations the callers start in all.
MaxOps == 3

\* SST files the table creates.
MaxFiles == 2

\* Largest file id of the table whose file id counter is recovered.
MaxFileId == 5

\* Callers of Instance::close, and the close calls they make in all.
NumClosers == 2
MaxCloses == 2

\* SSTs written in the compaction part, by flushes and compactions.
MaxSsts == 3
\* Timestamps are 0..MaxTime-1; time ranges are [start, end) within 0..MaxTime.
MaxTime == 2
\* Capacity of the compaction scheduler's pending queue.
MaxPending == 1
\* Memtables and SSTs of a read view.
MaxSources == 3
\* read_parallelism of a read request is 1..MaxParallelism.
MaxParallelism == 2

\* SequenceNumber::MAX, the upper end of the replay range and the bound
\* drop_table hands to the WAL (u64::MAX in the program).
SequenceNumberMAX == 2147483647

SchemaVersions == {1, 2}

\* ------------------------------------------------------------------ state
VARIABLES
    \* --- open / replay -------------------------------------------------
    wal,                \* the table's WAL: wal[i] is the entry of sequence i
    manifest,           \* manifest data of the table
    replay_batch_size,  \* Instance.replay_batch_size
    opens,              \* open_table calls issued so far
    pc,                 \* position of the open_table call in progress
    table_data,         \* the TableData being recovered (not yet registered)
    read_start,         \* ReadRequest.start of the replay (excluded bound)
    log_iter,           \* sequence of the next entry the WAL iterator returns
    log_entry_buf,      \* the batch being replayed
    idx,                \* index in log_entry_buf of the entry being replayed
    space_tables,       \* tables registered in the space (<<>> or <<td>>)
    open_failed_tables, \* TRUE when the table is recorded as open_failed
    open_result         \* result of the last finished open_table call

VARIABLES
    \* --- serial executor, flush, drop ----------------------------------
    serial_exec,        \* holder of table_data.serial_exec (0: free)
    epc,                \* position of each caller
    sync,               \* FlushRequest.sync of each caller's manual flush
    res_chan,           \* each caller's oneshot result channel
    eresult,            \* result of each caller's last operation
    ops,                \* operations started so far
    flush_state,        \* state of the table's flush scheduler
    flush_tasks,        \* flush tasks in flight
    last_sequence,      \* TableData.last_sequence
    flushed_sequence,   \* TableVersion.flushed_sequence
    wal_deleted_up_to,  \* highest sequence marked deletable in the table's WAL
    drop_marked,        \* a drop_table has marked the table's WAL deletable
    dropped,            \* TableData.dropped
    drop_call           \* each caller's last drop_table call: the table named,
                        \* the dropped flag it found, and what it has done

execVars == <<serial_exec, epc, sync, res_chan, eresult, ops, flush_state,
              flush_tasks, last_sequence, flushed_sequence, wal_deleted_up_to,
              drop_marked, dropped, drop_call>>

VARIABLES
    \* --- SST file handles and the purger -------------------------------
    next_file_id,       \* the id the next SST gets
    strong,             \* strong count of each file's Arc<FileHandleInner>
    level_files,        \* ids of the files in the version's FileHandleSet
    reader_view,        \* ids of the files each reader holds a handle of
    store,              \* ids of the files whose object is in the object store
    purge_chan,         \* the purger's unbounded channel
    purger_alive,       \* the purger task runs (its receiver is alive)
    exit_sent,          \* FilePurger::stop has sent Exit
    queue_closed,       \* FilePurgeQueueInner.closed of the table's queue
    purge_sent          \* purge requests sent for each file so far

fileVars == <<next_file_id, strong, level_files, reader_view, store, purge_chan,
              purger_alive, exit_sent, queue_closed, purge_sent>>

openVars == <<wal, manifest, replay_batch_size, opens, pc, table_data, read_start,
              log_iter, log_entry_buf, idx, space_tables, open_failed_tables,
              open_result>>

VARIABLES
    \* --- file id counter of a recovered table --------------------------
    version_meta,       \* the version meta of the table's manifest data
    last_file_id,       \* TableData.last_file_id
    version_files,      \* ids of the SSTs installed in the table's version
    rpc                 \* position of the table: closed, recovering, open

recoverVars == <<version_meta, last_file_id, version_files, rpc>>

VARIABLES
    \* --- engine shutdown -----------------------------------------------
    cpc,                \* position of each caller of Instance::close
    handle,             \* FilePurger.handle: the purger's JoinHandle, or None
    handle_lock,        \* holder of the mutex of FilePurger.handle (0: free)
    spaces_closed,      \* space_store.close() has closed the spaces
    scheduler_stopped,  \* compaction_scheduler.stop_scheduler() has stopped it
    close_result,       \* result of each caller's last close
    closes,             \* close calls made so far
    after_ok,           \* the caller's close began after a close returned Ok
    close_ok_done       \* some close has returned Ok

closeVars == <<cpc, handle, handle_lock, spaces_closed, scheduler_stopped,
               close_result, closes, after_ok, close_ok_done>>

VARIABLES
    \* --- compaction and the reads around it ----------------------------
    ssts,               \* the SSTs of the version, each with its level
    being_compacted,    \* ids of the files whose being_compacted flag is set
    picked,             \* the task the scheduler has picked and not yet started
    running,            \* the input sets of the compactions in execution
    sst_count           \* SSTs written so far (the last file id)

compactVars == <<ssts, being_compacted, picked, running, sst_count>>

VARIABLES
    \* --- calls on the file set of a level -------------------------------
    level_call          \* the last call on a LevelHandler, with its result

setVars == <<level_call>>

VARIABLES
    \* --- manual compaction ---------------------------------------------
    compact_queue,      \* the scheduler's pending requests (0: not a manual one)
    mpc,                \* position of each caller of manual_compact_table
    compact_chan,       \* the oneshot result channel of each caller's request
    schedule_succeed,   \* what schedule_table_compaction returned to the caller
    compact_result      \* result of each caller's last manual_compact_table

manualVars == <<compact_queue, mpc, compact_chan, schedule_succeed, compact_result>>

VARIABLES
    \* --- read path -----------------------------------------------------
    read_view,          \* the ReadView picked from the version for the read
    read_call           \* the read made of it: options, request and streams

readVars == <<read_view, read_call>>

VARIABLES
    \* --- the two indexes of a FileHandleSet -----------------------------
    file_map,           \* FileHandleSet.file_map: the handles, one for each key
    id_to_files,        \* FileHandleSet.id_to_files: the handles by file id
    set_call            \* the last call on the set, and the calls made so far

indexVars == <<file_map, id_to_files, set_call>>

VARIABLES
    \* --- one read lane: iterators, channel, stream -----------------------
    lane_iters,         \* the batches each iterator not yet done still has
    lane_pc,            \* position of the lane's task
    lane_batch,         \* the record batch the task is about to send
    lane_chan,          \* the record batches in the lane's channel
    rx_alive            \* the consumer still holds the stream (the receiver)

laneVars == <<lane_iters, lane_pc, lane_batch, lane_chan, rx_alive>>

VARIABLES
    \* --- the spaces map and open_space ----------------------------------
    spaces,             \* SpaceStore.spaces: the Space of each space id, if any
    spaces_made,        \* Space objects made so far for each space id
    space_pc,           \* position of each caller of open_space
    space_call,         \* each caller's last open_space: id, Space got, and how
    space_calls         \* open_space calls made so far

spaceVars == <<spaces, spaces_made, space_pc, space_call, space_calls>>

VARIABLES
    \* --- concurrent opens of one table ---------------------------------
    registered,         \* the TableData the space holds for the table id, if any
    tables_made,        \* TableData objects recovered from the manifest so far
    tables_inserted,    \* insert_table calls made so far
    replayed,           \* the TableData objects the table's WAL was replayed into
    failed_tables,      \* the table is recorded in the space as open_failed
    worker_chan,        \* RecoverTableCommands waiting at the table's write worker
    open_pc,            \* position of each caller of do_open_table
    open_call,          \* each caller's last do_open_table: its TableData, result
    open_calls          \* do_open_table calls made so far

tableVars == <<registered, tables_made, tables_inserted, replayed, failed_tables,
               worker_chan, open_pc, open_call, open_calls>>

VARIABLES
    \* --- the engine-wide flush trigger ----------------------------------
    db_write_buffer_size,   \* Instance.db_write_buffer_size
    memtable_memory_usage,  \* memtable_memory_usage() of each space listed
    flush_instance          \* the should_flush_instance call made, and its result

usageVars == <<db_write_buffer_size, memtable_memory_usage, flush_instance>>

\* The variables of the parts on one structure or function each.
moreVars == <<indexVars, laneVars, spaceVars, tableVars, usageVars>>

\* The variables of the parts on single calls (file sets of the levels,
\* manual compaction, read path) and on single structures.
lateVars == <<setVars, manualVars, readVars, moreVars>>

\* The variables of every part but those on single structures.
earlyVars == <<openVars, execVars, fileVars, recoverVars, closeVars, compactVars,
               setVars, manualVars, readVars>>

\* The variables of the further parts (file id counter, shutdown, compaction,
\* single calls).
restVars == <<recoverVars, closeVars, compactVars, lateVars>>

vars == <<openVars, execVars, fileVars, restVars>>

\* ------------------------------------------------------------------ helpers
Min(a, b) == IF a < b THEN a ELSE b
Max(a, b) == IF a > b THEN a ELSE b

\* ================================================================== WAL
\* Payloads read back from the WAL (payload.rs ReadPayload): a Write carries the
\* schema version of its row group; DDL entries carry none (0).
ReadPayloads ==
    [payload : {"Write"}, version : SchemaVersions]
        \cup [payload : {"AlterSchema", "AlterOptions"}, version : {0}]

Wals == UNION {[1..n -> ReadPayloads] : n \in 0..MaxWalLen}

LogEntry(i) == [sequence |-> i, payload |-> wal[i].payload, version |-> wal[i].version]

\* WalManager::read_batch + BatchLogIterator::next_log_entries: the next at most
\* batch_size entries of the range (start, MAX], in sequence order; the empty
\* batch once the range is exhausted.
NextLogEntries(from, batch_size) ==
    LET first == Max(from, 1)
        last  == Min(first + batch_size - 1, Min(Len(wal), SequenceNumberMAX))
    IN  [i \in 1..(IF last >= first THEN last - first + 1 ELSE 0) |->
            LogEntry(first + i - 1)]

\* ================================================================== open
\* TableData::recover_from_add + TableVersion::apply_meta: a fresh TableData with
\* the version meta of the manifest installed and empty memtables. Its
\* last_sequence starts at the flushed sequence, the least value that covers
\* the sequences of the SSTs the manifest installs.
RecoverTableData ==
    [schema_version   |-> manifest.schema_version,
     flushed_sequence |-> manifest.flushed_sequence,
     last_sequence    |-> manifest.flushed_sequence,
     mem              |-> <<>>,
     frozen           |-> <<>>]

NoTableData ==
    [schema_version |-> 0, flushed_sequence |-> 0, last_sequence |-> 0,
     mem |-> <<>>, frozen |-> <<>>]

\* A replay reading from the flushed sequence itself (ReadBoundary::Included).
FirstReplaySequence_Included(td) == td.flushed_sequence

\* ReadRequest.start of recover_table_from_wal: ReadBoundary::Excluded(flushed_sequence),
\* so the first entry read is the one after it.
FirstReplaySequence(td) == td.flushed_sequence + 1

InitOpen ==
    /\ wal \in Wals
    /\ manifest \in [exists : BOOLEAN, schema_version : SchemaVersions,
                     flushed_sequence : 0..Len(wal)]
    /\ (~manifest.exists => wal = <<>> /\ manifest.schema_version = 1)
    /\ replay_batch_size \in 1..MaxBatchSize
    /\ opens = 0
    /\ pc = "idle"
    /\ table_data = NoTableData
    /\ read_start = 0
    /\ log_iter = 0
    /\ log_entry_buf = <<>>
    /\ idx = 0
    /\ space_tables = <<>>
    /\ open_failed_tables = FALSE
    /\ open_result = "None"


\* Instance::do_open_table: return the registered table if there is one; else
\* recover the meta data from the manifest (Ok(None) when the manifest has no
\* data for the table, an error when the load fails) and hand a
\* RecoverTableCommand to the write worker.
DoOpenTable ==
    /\ UNCHANGED <<execVars, fileVars, restVars>>
    /\ pc = "idle"
    /\ opens < MaxOpens
    /\ opens' = opens + 1
    /\ IF space_tables # <<>>
       THEN /\ open_result' = "OkSome"
            /\ UNCHANGED <<pc, table_data>>
       ELSE \/ /\ open_result' = "ErrReadMetaUpdate"
               /\ UNCHANGED <<pc, table_data>>
            \/ /\ ~manifest.exists
               /\ open_result' = "OkNone"
               /\ UNCHANGED <<pc, table_data>>
            \/ /\ manifest.exists
               /\ table_data' = RecoverTableData
               /\ pc' = "recover_cmd"
               /\ open_result' = "None"
    /\ UNCHANGED <<wal, manifest, replay_batch_size, read_start, log_iter,
                   log_entry_buf, idx, space_tables, open_failed_tables>>

\* Instance::process_recover_table_command, first half: an already registered
\* table is returned as it is; else recover_table_from_wal builds the read
\* request and opens the WAL iterator (read_batch, which may fail with ReadWal).
ProcessRecoverTableCommand ==
    /\ UNCHANGED <<execVars, fileVars, restVars>>
    /\ pc = "recover_cmd"
    /\ IF space_tables # <<>>
       THEN /\ open_result' = "OkSome"
            /\ pc' = "idle"
            /\ table_data' = NoTableData
            /\ UNCHANGED <<read_start, log_iter>>
       ELSE \/ /\ read_start' = table_data.flushed_sequence
               /\ log_iter' = FirstReplaySequence(table_data)
               /\ pc' = "fetch"
               /\ UNCHANGED <<open_result, table_data>>
            \/ /\ pc' = "failed"
               /\ UNCHANGED <<open_result, table_data, read_start, log_iter>>
    /\ UNCHANGED <<wal, manifest, replay_batch_size, opens, log_entry_buf, idx,
                   space_tables, open_failed_tables>>

\* recover_table_from_wal, head of the loop: fetch the next batch into
\* log_entry_buf (next_log_entries, which may fail with ReadWal).
FetchLogEntries ==
    /\ UNCHANGED <<execVars, fileVars, restVars>>
    /\ pc = "fetch"
    /\ \/ /\ log_entry_buf' = NextLogEntries(log_iter, replay_batch_size)
          /\ log_iter' = log_iter + Len(log_entry_buf')
          /\ idx' = 1
          /\ pc' = "replay"
       \/ /\ pc' = "failed"
          /\ UNCHANGED <<log_entry_buf, log_iter, idx>>
    /\ UNCHANGED <<wal, manifest, replay_batch_size, opens, table_data, read_start,
                   space_tables, open_failed_tables, open_result>>

\* replay_table_log_entries on an empty batch returns at once, and the loop of
\* recover_table_from_wal breaks on the empty log_entry_buf.
ReplayEmptyBatch ==
    /\ UNCHANGED <<execVars, fileVars, restVars>>
    /\ pc = "replay"
    /\ log_entry_buf = <<>>
    /\ pc' = "recovered"
    /\ UNCHANGED <<wal, manifest, replay_batch_size, opens, table_data, read_start,
                   log_iter, log_entry_buf, idx, space_tables, open_failed_tables,
                   open_result>>

\* A schema check that lets rows of an older schema through.
SchemaMatches_OlderToo(td, entry) == entry.version <= td.schema_version

\* The schema check of replay_table_log_entries: a Write is applied when the
\* schema version of its row group is the table's.
SchemaMatches(td, entry) == td.schema_version = entry.version

\* Instance::write_to_memtable as called by the replay: the rows go to the
\* active memtable under the entry's sequence; nothing is appended to the WAL.
WriteToMemtable(td, sequence) == [td EXCEPT !.mem = Append(@, sequence)]

\* One iteration of the for loop of replay_table_log_entries, up to the flush
\* check: a Write of another schema version and a DDL entry are passed over, a
\* Write of the table's schema version is written to the memtable (which may
\* fail with ApplyMemTable).
ReplayLogEntry ==
    /\ UNCHANGED <<execVars, fileVars, restVars>>
    /\ pc = "replay"
    /\ idx <= Len(log_entry_buf)
    /\ LET entry == log_entry_buf[idx]
       IN  IF entry.payload = "Write" /\ SchemaMatches(table_data, entry)
           THEN \/ /\ table_data' = WriteToMemtable(table_data, entry.sequence)
                   /\ pc' = "flush_check"
                   /\ UNCHANGED idx
                \/ /\ pc' = "failed"
                   /\ UNCHANGED <<table_data, idx>>
           ELSE /\ idx' = idx + 1
                /\ UNCHANGED <<table_data, pc>>
    /\ UNCHANGED <<wal, manifest, replay_batch_size, opens, read_start, log_iter,
                   log_entry_buf, space_tables, open_failed_tables, open_result>>

\* TableData::should_flush_table: the active memtable reached the write buffer size.
ShouldFlushTable(td) == Len(td.mem) >= WriteBufferEntries

\* flush_table_in_worker: the active memtable is frozen and flushed up to the
\* table's last_sequence, which becomes the flushed sequence.
FlushTableInWorker(td) ==
    [td EXCEPT !.frozen = @ \o td.mem,
               !.mem = <<>>,
               !.flushed_sequence = Max(@, td.last_sequence)]

\* A flush check that ends the replay after a flush.
ReplayFlushCheck_EndsReplay ==
    /\ UNCHANGED <<execVars, fileVars, restVars>>
    /\ pc = "flush_check"
    /\ IF ShouldFlushTable(table_data)
       THEN /\ table_data' = FlushTableInWorker(table_data)
            /\ manifest' = [manifest EXCEPT
                              !.flushed_sequence = table_data'.flushed_sequence]
            /\ idx' = Len(log_entry_buf) + 1
            /\ log_iter' = Len(wal) + 1
            /\ pc' = "replay"
       ELSE /\ idx' = idx + 1
            /\ pc' = "replay"
            /\ UNCHANGED <<table_data, manifest, log_iter>>
    /\ UNCHANGED <<wal, replay_batch_size, opens, read_start,
                   log_entry_buf, space_tables, open_failed_tables, open_result>>

\* The flush check that follows a replayed Write: when the table should flush,
\* a flush is scheduled (it may fail with FlushTable); the loop then goes on.
ReplayFlushCheck ==
    /\ UNCHANGED <<execVars, fileVars, restVars>>
    /\ pc = "flush_check"
    /\ IF ShouldFlushTable(table_data)
       THEN \/ /\ table_data' = FlushTableInWorker(table_data)
               /\ manifest' = [manifest EXCEPT
                                 !.flushed_sequence = table_data'.flushed_sequence]
               /\ idx' = idx + 1
               /\ pc' = "replay"
            \/ /\ pc' = "failed"
               /\ UNCHANGED <<table_data, manifest, idx>>
       ELSE /\ idx' = idx + 1
            /\ pc' = "replay"
            /\ UNCHANGED <<table_data, manifest>>
    /\ UNCHANGED <<wal, replay_batch_size, opens, read_start, log_iter,
                   log_entry_buf, space_tables, open_failed_tables, open_result>>

\* The sequence of the first entry of the batch instead of the last.
BatchLastSequence_Front(log_entries) == log_entries[1].sequence

\* let last_sequence = log_entries.back().unwrap().sequence
BatchLastSequence(log_entries) == log_entries[Len(log_entries)].sequence

\* End of replay_table_log_entries on a non-empty batch: set_last_sequence with
\* the sequence of the last entry of the batch; the loop fetches the next batch.
ReplayBatchEnd ==
    /\ UNCHANGED <<execVars, fileVars, restVars>>
    /\ pc = "replay"
    /\ log_entry_buf # <<>>
    /\ idx > Len(log_entry_buf)
    /\ table_data' = [table_data EXCEPT
                        !.last_sequence = BatchLastSequence(log_entry_buf)]
    /\ pc' = "fetch"
    /\ UNCHANGED <<wal, manifest, replay_batch_size, opens, read_start, log_iter,
                   log_entry_buf, idx, space_tables, open_failed_tables, open_result>>

\* A failed recovery that still inserts the TableData into the space.
RecoverFailed_Inserts ==
    /\ UNCHANGED <<execVars, fileVars, restVars>>
    /\ pc = "failed"
    /\ open_failed_tables' = TRUE
    /\ open_result' = "ErrRecover"
    /\ pc' = "idle"
    /\ space_tables' = <<table_data>>
    /\ UNCHANGED <<wal, manifest, replay_batch_size, opens, read_start, log_iter,
                   log_entry_buf, idx, table_data>>

\* process_recover_table_command, the map_err arm: the table is recorded as
\* open_failed and the error is returned; the TableData is not inserted.
RecoverFailed ==
    /\ UNCHANGED <<execVars, fileVars, restVars>>
    /\ pc = "failed"
    /\ open_failed_tables' = TRUE
    /\ open_result' = "ErrRecover"
    /\ pc' = "idle"
    /\ table_data' = NoTableData
    /\ UNCHANGED <<wal, manifest, replay_batch_size, opens, read_start, log_iter,
                   log_entry_buf, idx, space_tables>>

\* process_recover_table_command, the success arm: space.insert_table.
RecoverDone ==
    /\ UNCHANGED <<execVars, fileVars, restVars>>
    /\ pc = "recovered"
    /\ space_tables' = <<table_data>>
    /\ open_result' = "OkSome"
    /\ pc' = "idle"
    /\ UNCHANGED <<wal, manifest, replay_batch_size, opens, table_data, read_start,
                   log_iter, log_entry_buf, idx, open_failed_tables>>

\* ================================================================== executor
Callers == 1..NumCallers

\* Table names a DropTableRequest may carry; the space holds the table "t"
\* (the callers of this part neither create nor unregister tables).
TableNames == {"t", "absent"}
SpaceTableNames == {"t"}

NoDropCall == [table_name |-> "", was_dropped |-> FALSE, trimmed |-> FALSE, edited |-> FALSE]

InitExec ==
    /\ serial_exec = 0
    /\ epc = [p \in Callers |-> "idle"]
    /\ sync = [p \in Callers |-> FALSE]
    /\ res_chan = [p \in Callers |-> "Empty"]
    /\ eresult = [p \in Callers |-> "None"]
    /\ ops = 0
    /\ flush_state = "None"
    /\ flush_tasks = <<>>
    /\ last_sequence = 0
    /\ flushed_sequence = 0
    /\ wal_deleted_up_to = 0
    /\ drop_marked = FALSE
    /\ dropped = FALSE
    /\ drop_call = [p \in Callers |-> NoDropCall]

\* The open part at rest: no table to open.
QuietOpen ==
    /\ wal = <<>>
    /\ manifest = [exists |-> FALSE, schema_version |-> 1, flushed_sequence |-> 0]
    /\ replay_batch_size = 1
    /\ opens = 0
    /\ pc = "idle"
    /\ table_data = NoTableData
    /\ read_start = 0
    /\ log_iter = 0
    /\ log_entry_buf = <<>>
    /\ idx = 0
    /\ space_tables = <<>>
    /\ open_failed_tables = FALSE
    /\ open_result = "None"

\* table_data.serial_exec.lock().await returns once the executor is free.
SerialExecFree == serial_exec = 0

\* A flush scheduler that never waits for the flush in flight.
FlushSchedulerIdle_Always == TRUE

\* The flush scheduler of the serial executor lets a flush be scheduled only
\* when none is in flight.
FlushSchedulerIdle == flush_state = "None"

\* Flusher::schedule_flush: the memtables are frozen at the table's
\* last_sequence and a flush task is spawned that carries the result sender.
SpawnFlushTask(waiter) ==
    /\ flush_state' = "Flushing"
    /\ flush_tasks' = Append(flush_tasks, [sequence |-> last_sequence, res_sender |-> waiter,
                                           io |-> "running"])

\* Instance::manual_flush_table is called: the result channel is made when
\* request.sync is set, and the call waits for the serial executor.
ManualFlushTable(p, request_sync) ==
    /\ epc[p] = "idle"
    /\ ops < MaxOps
    /\ ops' = ops + 1
    /\ sync' = [sync EXCEPT ![p] = request_sync]
    /\ res_chan' = [res_chan EXCEPT ![p] = "Empty"]
    /\ eresult' = [eresult EXCEPT ![p] = "None"]
    /\ epc' = [epc EXCEPT ![p] = "flush_lock"]
    /\ UNCHANGED <<serial_exec, flush_state, flush_tasks, last_sequence,
                   flushed_sequence, wal_deleted_up_to, drop_marked, dropped>>
    /\ UNCHANGED <<openVars, fileVars, restVars, drop_call>>

\* let mut serial_exec = table_data.serial_exec.lock().await
FlushLockSerialExec(p) ==
    /\ epc[p] = "flush_lock"
    /\ SerialExecFree
    /\ serial_exec' = p
    /\ epc' = [epc EXCEPT ![p] = "flush_schedule"]
    /\ UNCHANGED <<sync, res_chan, eresult, ops, flush_state, flush_tasks, last_sequence,
                   flushed_sequence, wal_deleted_up_to, drop_marked, dropped>>
    /\ UNCHANGED <<openVars, fileVars, restVars, drop_call>>

\* flusher.schedule_flush(..).await under the executor: on an error the call
\* returns ManualOp; else the flush is scheduled once no other is in flight.
\* With sync the call goes on to wait for the result, still holding the
\* executor; without it returns Ok and the guard is dropped.
FlushSchedule(p) ==
    /\ epc[p] = "flush_schedule"
    /\ \/ /\ eresult' = [eresult EXCEPT ![p] = "ErrManualOp"]
          /\ epc' = [epc EXCEPT ![p] = "idle"]
          /\ serial_exec' = 0
          /\ UNCHANGED <<flush_state, flush_tasks>>
       \/ /\ FlushSchedulerIdle
          /\ SpawnFlushTask(IF sync[p] THEN p ELSE 0)
          /\ IF sync[p]
             THEN /\ epc' = [epc EXCEPT ![p] = "flush_wait"]
                  /\ UNCHANGED <<eresult, serial_exec>>
             ELSE /\ epc' = [epc EXCEPT ![p] = "idle"]
                  /\ eresult' = [eresult EXCEPT ![p] = "Ok"]
                  /\ serial_exec' = 0
    /\ UNCHANGED <<sync, res_chan, ops, last_sequence, flushed_sequence,
                   wal_deleted_up_to, drop_marked, dropped>>
    /\ UNCHANGED <<openVars, fileVars, restVars, drop_call>>

\* A wait that returns with the result channel still empty.
FlushWaitResult_NoWait(p) ==
    /\ epc[p] = "flush_wait"
    /\ eresult' = [eresult EXCEPT ![p] =
                      CASE res_chan[p] = "Ok" -> "Ok"
                        [] res_chan[p] = "Err" -> "ErrManualOp"
                        [] OTHER -> "ErrRecvManualOpResult"]
    /\ epc' = [epc EXCEPT ![p] = "idle"]
    /\ serial_exec' = 0
    /\ UNCHANGED <<sync, res_chan, ops, flush_state, flush_tasks, last_sequence,
                   flushed_sequence, wal_deleted_up_to, drop_marked, dropped>>
    /\ UNCHANGED <<openVars, fileVars, restVars, drop_call>>

\* rx.await of manual_flush_table: Ok on a sent Ok, ManualOp on a sent error,
\* RecvManualOpResult when the sender was dropped; the guard is dropped on return.
FlushWaitResult(p) ==
    /\ epc[p] = "flush_wait"
    /\ res_chan[p] # "Empty"
    /\ eresult' = [eresult EXCEPT ![p] =
                      CASE res_chan[p] = "Ok" -> "Ok"
                        [] res_chan[p] = "Err" -> "ErrManualOp"
                        [] OTHER -> "ErrRecvManualOpResult"]
    /\ epc' = [epc EXCEPT ![p] = "idle"]
    /\ serial_exec' = 0
    /\ UNCHANGED <<sync, res_chan, ops, flush_state, flush_tasks, last_sequence,
                   flushed_sequence, wal_deleted_up_to, drop_marked, dropped>>
    /\ UNCHANGED <<openVars, fileVars, restVars, drop_call>>

\* The flush task ends. On success the version's flushed_sequence becomes the
\* task's sequence and the WAL is marked deletable up to it; in every case the
\* scheduler is released and the result goes to the waiter, if any (or the
\* sender is dropped unsent).
FlushTaskEnd(outcome) ==
    /\ flush_tasks # <<>>
    /\ LET task == Head(flush_tasks)
       IN  /\ flush_tasks' = Tail(flush_tasks)
           /\ flush_state' = "None"
           /\ IF outcome = "Ok"
              THEN /\ flushed_sequence' = task.sequence
                   /\ wal_deleted_up_to' = Max(wal_deleted_up_to, task.sequence)
              ELSE UNCHANGED <<flushed_sequence, wal_deleted_up_to>>
           /\ IF task.res_sender # 0
              THEN res_chan' = [res_chan EXCEPT ![task.res_sender] = outcome]
              ELSE UNCHANGED res_chan
    /\ UNCHANGED <<serial_exec, epc, sync, eresult, ops, last_sequence, drop_marked, dropped>>
    /\ UNCHANGED <<openVars, fileVars, restVars, drop_call>>

\* The flush task after spec 4.6, steps 2 to 5: the I/O of the flush runs with
\* the executor released. A failed flush ends here, its result going to the
\* waiter; a flush whose SSTs and manifest edit are written has its swap left.
FlushTaskIo(outcome) ==
    /\ flush_tasks # <<>>
    /\ Head(flush_tasks).io = "running"
    /\ IF outcome = "Ok"
       THEN /\ flush_tasks' = [flush_tasks EXCEPT ![1].io = "done"]
            /\ UNCHANGED <<serial_exec, epc, sync, res_chan, eresult, ops, flush_state,
                           last_sequence, flushed_sequence, wal_deleted_up_to,
                           drop_marked, dropped>>
            /\ UNCHANGED <<openVars, fileVars, restVars, drop_call>>
       ELSE FlushTaskEnd(outcome)

\* The flush task after spec 4.6, steps 6 and 7: under the serial executor
\* again, the swap into the version; then the WAL mark and the result.
FlushTaskSwap ==
    /\ flush_tasks # <<>>
    /\ Head(flush_tasks).io = "done"
    /\ SerialExecFree
    /\ FlushTaskEnd("Ok")

\* A write is called and waits for the serial executor.
Write(p) ==
    /\ epc[p] = "idle"
    /\ ops < MaxOps
    /\ ~dropped
    /\ ops' = ops + 1
    /\ eresult' = [eresult EXCEPT ![p] = "None"]
    /\ epc' = [epc EXCEPT ![p] = "write_lock"]
    /\ UNCHANGED <<serial_exec, sync, res_chan, flush_state, flush_tasks, last_sequence,
                   flushed_sequence, wal_deleted_up_to, drop_marked, dropped>>
    /\ UNCHANGED <<openVars, fileVars, restVars, drop_call>>

WriteLockSerialExec(p) ==
    /\ epc[p] = "write_lock"
    /\ SerialExecFree
    /\ serial_exec' = p
    /\ epc' = [epc EXCEPT ![p] = "write_wal"]
    /\ UNCHANGED <<sync, res_chan, eresult, ops, flush_state, flush_tasks, last_sequence,
                   flushed_sequence, wal_deleted_up_to, drop_marked, dropped>>
    /\ UNCHANGED <<openVars, fileVars, restVars, drop_call>>

\* Under the executor: the rows are appended to the WAL under the next
\* sequence, applied to the memtable, and last_sequence is updated.
WriteApply(p) ==
    /\ epc[p] = "write_wal"
    /\ last_sequence' = last_sequence + 1
    /\ epc' = [epc EXCEPT ![p] = "write_flush"]
    /\ UNCHANGED <<serial_exec, sync, res_chan, eresult, ops, flush_state, flush_tasks,
                   flushed_sequence, wal_deleted_up_to, drop_marked, dropped>>
    /\ UNCHANGED <<openVars, fileVars, restVars, drop_call>>

\* End of the write, still under the executor: when a flush threshold is
\* crossed a flush is scheduled like a manual one, without a result sender.
WriteEnd(p) ==
    /\ epc[p] = "write_flush"
    /\ \/ UNCHANGED <<flush_state, flush_tasks>>
       \/ /\ FlushSchedulerIdle
          /\ SpawnFlushTask(0)
    /\ eresult' = [eresult EXCEPT ![p] = "Ok"]
    /\ epc' = [epc EXCEPT ![p] = "idle"]
    /\ serial_exec' = 0
    /\ UNCHANGED <<sync, res_chan, ops, last_sequence, flushed_sequence,
                   wal_deleted_up_to, drop_marked, dropped>>
    /\ UNCHANGED <<openVars, fileVars, restVars, drop_call>>

\* A drop that trims the WAL only up to the table's last sequence.
DropDeleteUpTo_LastSequence == last_sequence

\* The sequence Dropper::drop hands to mark_delete_entries_up_to.
DropDeleteUpTo == SequenceNumberMAX

\* A lookup that finds a table under every name.
FindTable_Any(table_name) == TRUE

\* self.space.find_table(&request.table_name)
FindTable(table_name) == table_name \in SpaceTableNames

\* A dropped flag that is never seen set.
IsDropped_Never == FALSE

\* table_data.is_dropped()
IsDropped == dropped

\* Dropper::drop, up to the WAL call: Ok(false) when the space has no table of
\* that name, Ok(false) when the table is already dropped; the serial executor
\* is not taken.
Drop(p, table_name) ==
    /\ epc[p] = "idle"
    /\ ops < MaxOps
    /\ ops' = ops + 1
    /\ drop_call' = [drop_call EXCEPT ![p] =
                        [table_name |-> table_name, was_dropped |-> dropped,
                         trimmed |-> FALSE, edited |-> FALSE]]
    /\ IF ~FindTable(table_name)
       THEN /\ eresult' = [eresult EXCEPT ![p] = "false"]
            /\ UNCHANGED epc
       ELSE IF IsDropped
            THEN /\ eresult' = [eresult EXCEPT ![p] = "false"]
                 /\ UNCHANGED epc
            ELSE /\ eresult' = [eresult EXCEPT ![p] = "None"]
                 /\ epc' = [epc EXCEPT ![p] = "drop_wal"]
    /\ UNCHANGED <<serial_exec, sync, res_chan, flush_state, flush_tasks, last_sequence,
                   flushed_sequence, wal_deleted_up_to, drop_marked, dropped>>
    /\ UNCHANGED <<openVars, fileVars, restVars>>

\* wal_manager.mark_delete_entries_up_to(wal_location, SequenceNumber::MAX)
\*     .await.unwrap(): the WAL of the table is marked deletable, or the call
\* fails and the unwrap panics, which ends the drop with no result.
DropMarkWal(p) ==
    /\ epc[p] = "drop_wal"
    /\ \/ /\ wal_deleted_up_to' = Max(wal_deleted_up_to, DropDeleteUpTo)
          /\ drop_marked' = TRUE
          /\ drop_call' = [drop_call EXCEPT ![p].trimmed = TRUE]
          /\ epc' = [epc EXCEPT ![p] = "drop_manifest"]
          /\ UNCHANGED eresult
       \/ /\ eresult' = [eresult EXCEPT ![p] = "Panic"]
          /\ epc' = [epc EXCEPT ![p] = "idle"]
          /\ UNCHANGED <<wal_deleted_up_to, drop_marked, drop_call>>
    /\ UNCHANGED <<serial_exec, sync, res_chan, ops, flush_state, flush_tasks,
                   last_sequence, flushed_sequence, dropped>>
    /\ UNCHANGED <<openVars, fileVars, restVars>>

\* A drop that applies the DropTable edit in place of the WAL call.
DropApplyManifest_BeforeWal(p) ==
    /\ epc[p] = "drop_wal"
    /\ dropped' = TRUE
    /\ drop_call' = [drop_call EXCEPT ![p].edited = TRUE]
    /\ eresult' = [eresult EXCEPT ![p] = "true"]
    /\ epc' = [epc EXCEPT ![p] = "idle"]
    /\ UNCHANGED <<serial_exec, sync, res_chan, ops, flush_state, flush_tasks,
                   last_sequence, flushed_sequence, wal_deleted_up_to, drop_marked>>
    /\ UNCHANGED <<openVars, fileVars, restVars>>

\* A drop that takes the WAL mark back when the DropTable edit fails.
DropApplyManifest_RollsBack(p) ==
    /\ epc[p] = "drop_manifest"
    /\ \/ /\ dropped' = TRUE
          /\ drop_call' = [drop_call EXCEPT ![p].edited = TRUE]
          /\ eresult' = [eresult EXCEPT ![p] = "true"]
          /\ UNCHANGED <<wal_deleted_up_to, drop_marked>>
       \/ /\ eresult' = [eresult EXCEPT ![p] = "ErrWriteManifest"]
          /\ wal_deleted_up_to' = flushed_sequence
          /\ drop_marked' = FALSE
          /\ drop_call' = [drop_call EXCEPT ![p].trimmed = FALSE]
          /\ UNCHANGED dropped
    /\ epc' = [epc EXCEPT ![p] = "idle"]
    /\ UNCHANGED <<serial_exec, sync, res_chan, ops, flush_state, flush_tasks,
                   last_sequence, flushed_sequence>>
    /\ UNCHANGED <<openVars, fileVars, restVars>>

\* manifest.apply_edit(DropTable).await: applied, the table is marked dropped
\* and drop returns true; failed, drop returns the WriteManifest error.
DropApplyManifest(p) ==
    /\ epc[p] = "drop_manifest"
    /\ \/ /\ dropped' = TRUE
          /\ drop_call' = [drop_call EXCEPT ![p].edited = TRUE]
          /\ eresult' = [eresult EXCEPT ![p] = "true"]
       \/ /\ eresult' = [eresult EXCEPT ![p] = "ErrWriteManifest"]
          /\ UNCHANGED <<dropped, drop_call>>
    /\ epc' = [epc EXCEPT ![p] = "idle"]
    /\ UNCHANGED <<serial_exec, sync, res_chan, ops, flush_state, flush_tasks,
                   last_sequence, flushed_sequence, wal_deleted_up_to, drop_marked>>
    /\ UNCHANGED <<openVars, fileVars, restVars>>

\* ================================================================== files
FileIds == 1..MaxFiles
Readers == {1, 2}
CreatedFiles == 1..(next_file_id - 1)

InitFiles ==
    /\ next_file_id = 1
    /\ strong = [f \in FileIds |-> 0]
    /\ level_files = {}
    /\ reader_view = [r \in Readers |-> {}]
    /\ store = {}
    /\ purge_chan = <<>>
    /\ purger_alive = TRUE
    /\ exit_sent = FALSE
    /\ queue_closed = FALSE
    /\ purge_sent = [f \in FileIds |-> 0]

\* The exec part at rest is its initial state.
QuietExec == InitExec

\* The handle state the drop of a FileHandle works on.
Handles == [strong |-> strong, chan |-> purge_chan, sent |-> purge_sent]

SetHandles(h) ==
    /\ strong' = h.strong
    /\ purge_chan' = h.chan
    /\ purge_sent' = h.sent

\* A push that sends the request whether the queue is closed or not.
PushFile_IgnoresClosed(h, f) ==
    IF purger_alive
    THEN [h EXCEPT !.chan = Append(@, [kind |-> "Purge", file_id |-> f]),
                   !.sent[f] = @ + 1]
    ELSE h

\* FilePurgeQueue::push_file: nothing when the queue is closed; else a Purge
\* request is sent, which fails (and is logged) when the receiver is gone.
PushFile(h, f) ==
    IF queue_closed
    THEN h
    ELSE IF purger_alive
         THEN [h EXCEPT !.chan = Append(@, [kind |-> "Purge", file_id |-> f]),
                        !.sent[f] = @ + 1]
         ELSE h

\* A drop that pushes the file whenever any clone of the handle goes.
DropFileHandle_EveryClone(h, f) == PushFile([h EXCEPT !.strong[f] = @ - 1], f)

\* A drop of the inner that forgets the purge queue.
DropFileHandle_NoPush(h, f) == [h EXCEPT !.strong[f] = @ - 1]

\* Drop of one FileHandle clone: the Arc's strong count goes down, and the drop
\* of the last one runs FileHandleInner::drop, which pushes the file id.
DropFileHandle(h, f) ==
    IF h.strong[f] = 1
    THEN PushFile([h EXCEPT !.strong[f] = 0], f)
    ELSE [h EXCEPT !.strong[f] = @ - 1]

RECURSIVE DropFileHandles(_, _)
DropFileHandles(h, fs) ==
    IF fs = {}
    THEN h
    ELSE LET f == CHOOSE x \in fs : TRUE
         IN  DropFileHandles(DropFileHandle(h, f), fs \ {f})

\* FileHandleSet::remove_by_ids: the handle is taken out of id_to_files and
\* file_map, and both clones are dropped.
RemoveByIds(h, fs) == DropFileHandles(DropFileHandles(h, fs), fs)

\* A new SST is published: its object is in the store, FileHandle::new makes
\* the handle and FileHandleSet::insert keeps it twice (file_map, id_to_files).
AddFile ==
    /\ next_file_id <= MaxFiles
    /\ next_file_id' = next_file_id + 1
    /\ store' = store \cup {next_file_id}
    /\ strong' = [strong EXCEPT ![next_file_id] = 2]
    /\ level_files' = level_files \cup {next_file_id}
    /\ UNCHANGED <<reader_view, purge_chan, purger_alive, exit_sent, queue_closed,
                   purge_sent>>
    /\ UNCHANGED <<openVars, execVars, restVars>>

\* A reader takes its read view: LevelHandler::pick_ssts clones the handles.
PickReadView(r) ==
    /\ reader_view[r] = {}
    /\ level_files # {}
    /\ reader_view' = [reader_view EXCEPT ![r] = level_files]
    /\ strong' = [f \in FileIds |-> IF f \in level_files THEN strong[f] + 1 ELSE strong[f]]
    /\ UNCHANGED <<next_file_id, level_files, store, purge_chan, purger_alive, exit_sent,
                   queue_closed, purge_sent>>
    /\ UNCHANGED <<openVars, execVars, restVars>>

\* The reader is done and drops the handles of its view.
ReleaseReadView(r) ==
    /\ reader_view[r] # {}
    /\ reader_view' = [reader_view EXCEPT ![r] = {}]
    /\ SetHandles(DropFileHandles(Handles, reader_view[r]))
    /\ UNCHANGED <<next_file_id, level_files, store, purger_alive, exit_sent, queue_closed>>
    /\ UNCHANGED <<openVars, execVars, restVars>>

\* A compaction's edit takes a file out of the version: LevelHandler::remove_ssts.
RemoveSsts(f) ==
    /\ f \in level_files
    /\ level_files' = level_files \ {f}
    /\ SetHandles(RemoveByIds(Handles, {f}))
    /\ UNCHANGED <<next_file_id, reader_view, store, purger_alive, exit_sent, queue_closed>>
    /\ UNCHANGED <<openVars, execVars, restVars>>

\* The dropped table's version is released with all the files it holds.
ReleaseVersion ==
    /\ Cardinality(level_files) > 1
    /\ level_files' = {}
    /\ SetHandles(RemoveByIds(Handles, level_files))
    /\ UNCHANGED <<next_file_id, reader_view, store, purger_alive, exit_sent, queue_closed>>
    /\ UNCHANGED <<openVars, execVars, restVars>>

\* FilePurgeQueue::close
CloseQueue ==
    /\ ~queue_closed
    /\ queue_closed' = TRUE
    /\ UNCHANGED <<next_file_id, strong, level_files, reader_view, store, purge_chan,
                   purger_alive, exit_sent, purge_sent>>
    /\ UNCHANGED <<openVars, execVars, restVars>>

\* FilePurger::stop sends Exit (a failed send is logged).
StopPurger ==
    /\ ~exit_sent
    /\ exit_sent' = TRUE
    /\ purge_chan' = IF purger_alive
                     THEN Append(purge_chan, [kind |-> "Exit", file_id |-> 0])
                     ELSE purge_chan
    /\ UNCHANGED <<next_file_id, strong, level_files, reader_view, store, purger_alive,
                   queue_closed, purge_sent>>
    /\ UNCHANGED <<openVars, execVars, restVars>>

\* A loop that ends as soon as an Exit is anywhere in its channel.
PurgeFileLoop_ExitFirst ==
    /\ purger_alive
    /\ purge_chan # <<>>
    /\ IF \E i \in 1..Len(purge_chan) : purge_chan[i].kind = "Exit"
       THEN /\ purger_alive' = FALSE
            /\ purge_chan' = <<>>
            /\ UNCHANGED store
       ELSE /\ purge_chan' = Tail(purge_chan)
            /\ \/ store' = store \ {Head(purge_chan).file_id}
               \/ UNCHANGED store
            /\ UNCHANGED purger_alive
    /\ UNCHANGED <<next_file_id, strong, level_files, reader_view, exit_sent, queue_closed,
                   purge_sent>>
    /\ UNCHANGED <<openVars, execVars, restVars>>

\* One turn of purge_file_loop: a Purge request deletes the object (a failed
\* delete is logged and the object stays); Exit ends the loop, and the
\* receiver goes with what is left in the channel.
PurgeFileLoop ==
    /\ purger_alive
    /\ purge_chan # <<>>
    /\ LET request == Head(purge_chan)
       IN  IF request.kind = "Purge"
           THEN /\ purge_chan' = Tail(purge_chan)
                /\ \/ store' = store \ {request.file_id}
                   \/ UNCHANGED store
                /\ UNCHANGED purger_alive
           ELSE /\ purger_alive' = FALSE
                /\ purge_chan' = <<>>
                /\ UNCHANGED store
    /\ UNCHANGED <<next_file_id, strong, level_files, reader_view, exit_sent, queue_closed,
                   purge_sent>>
    /\ UNCHANGED <<openVars, execVars, restVars>>

\* ================================================================== file id counter
\* The version meta a manifest may hold for the table: none, or the files added
\* to the version and not removed since.
VersionMetas ==
    [some : {FALSE}, files : {{}}] \cup [some : {TRUE}, files : SUBSET (1..MaxFileId)]

SetMax(S) == IF S = {} THEN 0 ELSE CHOOSE x \in S : \A y \in S : y <= x

InitRecover ==
    /\ version_meta \in VersionMetas
    /\ last_file_id = 0
    /\ version_files = {}
    /\ rpc = "closed"

\* The recover part at rest: no manifest data, the table closed.
QuietRecover ==
    /\ version_meta = [some |-> FALSE, files |-> {}]
    /\ last_file_id = 0
    /\ version_files = {}
    /\ rpc = "closed"

\* TableVersionMeta::max_file_id_to_add: the largest id of the files the meta
\* adds to the version, 0 when it adds none.
MaxFileIdToAdd(meta) == SetMax(meta.files)

\* A recovery that leaves last_file_id as recover_from_add made it.
RecoveredLastFileId_Unmaintained(last, max_file_id) == last

\* if table_data.last_file_id() < max_file_id { set_last_file_id(max_file_id) }
RecoveredLastFileId(last, max_file_id) ==
    IF last < max_file_id THEN max_file_id ELSE last

\* TableData::recover_from_add: a fresh TableData, its file id counter at 0 and
\* its version empty.
RecoverFromAdd ==
    /\ rpc = "closed"
    /\ last_file_id' = 0
    /\ version_files' = {}
    /\ rpc' = "apply_meta"
    /\ UNCHANGED version_meta
    /\ UNCHANGED <<openVars, execVars, fileVars, closeVars, compactVars, lateVars>>

\* recover_table_data, "Apply version meta to the table": with a version meta
\* its files are installed in the version and last_file_id is maintained;
\* without one the TableData stays as it is.
ApplyVersionMeta ==
    /\ rpc = "apply_meta"
    /\ IF version_meta.some
       THEN LET max_file_id == MaxFileIdToAdd(version_meta)
            IN  /\ version_files' = version_meta.files
                /\ last_file_id' = RecoveredLastFileId(last_file_id, max_file_id)
       ELSE UNCHANGED <<version_files, last_file_id>>
    /\ rpc' = "open"
    /\ UNCHANGED version_meta
    /\ UNCHANGED <<openVars, execVars, fileVars, closeVars, compactVars, lateVars>>

\* TableData::alloc_file_id and the version edit of the flush or compaction
\* that writes the file: the next id is last_file_id + 1, and the file is
\* added to the version and to the manifest.
AllocFileId ==
    /\ rpc = "open"
    /\ last_file_id < MaxFileId
    /\ last_file_id' = last_file_id + 1
    /\ version_files' = version_files \cup {last_file_id'}
    /\ version_meta' = [some |-> TRUE, files |-> version_meta.files \cup {last_file_id'}]
    /\ UNCHANGED rpc
    /\ UNCHANGED <<openVars, execVars, fileVars, closeVars, compactVars, lateVars>>

\* A version edit removes a file from the version and from the manifest.
RemoveFile(f) ==
    /\ rpc = "open"
    /\ f \in version_files
    /\ version_files' = version_files \ {f}
    /\ version_meta' = [version_meta EXCEPT !.files = @ \ {f}]
    /\ UNCHANGED <<last_file_id, rpc>>
    /\ UNCHANGED <<openVars, execVars, fileVars, closeVars, compactVars, lateVars>>

\* The table is closed: its TableData goes, the manifest stays.
CloseTable ==
    /\ rpc = "open"
    /\ rpc' = "closed"
    /\ last_file_id' = 0
    /\ version_files' = {}
    /\ UNCHANGED version_meta
    /\ UNCHANGED <<openVars, execVars, fileVars, closeVars, compactVars, lateVars>>

\* ================================================================== shutdown
Closers == 1..NumClosers

InitClose ==
    /\ cpc = [c \in Closers |-> "idle"]
    /\ handle = "Some"
    /\ handle_lock = 0
    /\ spaces_closed = FALSE
    /\ scheduler_stopped = FALSE
    /\ close_result = [c \in Closers |-> "None"]
    /\ closes = 0
    /\ after_ok = [c \in Closers |-> FALSE]
    /\ close_ok_done = FALSE

\* The shutdown part at rest is its initial state: nobody calls close.
QuietClose == InitClose

\* Instance::close is called; FilePurger::stop sends Exit, and a failed send
\* (the purger task has already exited) is logged.
CloseStopPurgerSend(c) ==
    /\ cpc[c] = "idle"
    /\ closes < MaxCloses
    /\ closes' = closes + 1
    /\ after_ok' = [after_ok EXCEPT ![c] = close_ok_done]
    /\ close_result' = [close_result EXCEPT ![c] = "None"]
    /\ exit_sent' = TRUE
    /\ purge_chan' = IF purger_alive
                     THEN Append(purge_chan, [kind |-> "Exit", file_id |-> 0])
                     ELSE purge_chan
    /\ cpc' = [cpc EXCEPT ![c] = "lock_handle"]
    /\ UNCHANGED <<handle, handle_lock, spaces_closed, scheduler_stopped, close_ok_done>>
    /\ UNCHANGED <<next_file_id, strong, level_files, reader_view, store, purger_alive,
                   queue_closed, purge_sent>>
    /\ UNCHANGED <<openVars, execVars, recoverVars, compactVars, lateVars>>

\* A take that leaves the JoinHandle where it was.
TakeHandle_Keeps(h) == h

\* handle.take(): what is left in FilePurger.handle.
TakeHandle(h) == "None"

\* FilePurger::stop: let mut handle = self.handle.lock().await, and
\* handle.take(). With a JoinHandle the call goes on to await it, holding the
\* mutex; with None stop returns Ok at once.
CloseLockHandle(c) ==
    /\ cpc[c] = "lock_handle"
    /\ handle_lock = 0
    /\ IF handle = "Some"
       THEN /\ handle' = TakeHandle(handle)
            /\ handle_lock' = c
            /\ cpc' = [cpc EXCEPT ![c] = "await_purger"]
       ELSE /\ cpc' = [cpc EXCEPT ![c] = "close_spaces"]
            /\ UNCHANGED <<handle, handle_lock>>
    /\ UNCHANGED <<spaces_closed, scheduler_stopped, close_result, closes, after_ok,
                   close_ok_done>>
    /\ UNCHANGED <<openVars, execVars, fileVars, recoverVars, compactVars, lateVars>>

\* A close that records the join error and goes on to the space store.
CloseAwaitPurger_GoesOn(c) ==
    /\ cpc[c] = "await_purger"
    /\ ~purger_alive
    /\ handle_lock' = 0
    /\ cpc' = [cpc EXCEPT ![c] = "close_spaces"]
    /\ \/ UNCHANGED close_result
       \/ close_result' = [close_result EXCEPT ![c] = "ErrStopFilePurger"]
    /\ UNCHANGED <<handle, spaces_closed, scheduler_stopped, closes, after_ok,
                   close_ok_done>>
    /\ UNCHANGED <<openVars, execVars, fileVars, recoverVars, compactVars, lateVars>>

\* h.await.context(StopPurger)?: the join ends once the purger task is over;
\* a join error makes close return StopFilePurger.
CloseAwaitPurger(c) ==
    /\ cpc[c] = "await_purger"
    /\ ~purger_alive
    /\ handle_lock' = 0
    /\ \/ /\ cpc' = [cpc EXCEPT ![c] = "close_spaces"]
          /\ UNCHANGED close_result
       \/ /\ cpc' = [cpc EXCEPT ![c] = "idle"]
          /\ close_result' = [close_result EXCEPT ![c] = "ErrStopFilePurger"]
    /\ UNCHANGED <<handle, spaces_closed, scheduler_stopped, closes, after_ok,
                   close_ok_done>>
    /\ UNCHANGED <<openVars, execVars, fileVars, recoverVars, compactVars, lateVars>>

\* self.space_store.close().await?: SpaceStore::close has no background job
\* to stop yet and returns Ok(()), so the ? never leaves close here.
CloseSpaceStore(c) ==
    /\ cpc[c] = "close_spaces"
    /\ spaces_closed' = TRUE
    /\ cpc' = [cpc EXCEPT ![c] = "stop_scheduler"]
    /\ UNCHANGED close_result
    /\ UNCHANGED <<handle, handle_lock, scheduler_stopped, closes, after_ok, close_ok_done>>
    /\ UNCHANGED <<openVars, execVars, fileVars, recoverVars, compactVars, lateVars>>

\* self.compaction_scheduler.stop_scheduler().await.context(StopScheduler):
\* the scheduler is stopped and close returns Ok, or close returns
\* StopScheduler; stopping a stopped scheduler does nothing.
CloseStopScheduler(c) ==
    /\ cpc[c] = "stop_scheduler"
    /\ \/ /\ scheduler_stopped' = TRUE
          /\ close_result' = [close_result EXCEPT ![c] = "Ok"]
          /\ close_ok_done' = TRUE
       \/ /\ ~scheduler_stopped
          /\ close_result' = [close_result EXCEPT ![c] = "ErrStopScheduler"]
          /\ UNCHANGED <<scheduler_stopped, close_ok_done>>
    /\ cpc' = [cpc EXCEPT ![c] = "idle"]
    /\ UNCHANGED <<handle, handle_lock, spaces_closed, closes, after_ok>>
    /\ UNCHANGED <<openVars, execVars, fileVars, recoverVars, compactVars, lateVars>>

\* ================================================================== compaction, reads
Timestamps == 0..(MaxTime - 1)

\* TimeRange: [inclusive_start, exclusive_end)
TimeRanges ==
    {r \in [inclusive_start : Timestamps, exclusive_end : 1..MaxTime] :
        r.inclusive_start < r.exclusive_end}

\* The levels of a version: level 0 and level 1.
Levels == {0, 1}

NoTask == [some |-> FALSE, inputs |-> {}]

InitCompact ==
    /\ ssts = {}
    /\ being_compacted = {}
    /\ picked = NoTask
    /\ running = {}
    /\ sst_count = 0

\* The compaction part at rest is its initial state: a version without SSTs.
QuietCompact == InitCompact

\* The rows of the key at timestamp ts as written under sequence `sequence`.
Row(ts, sequence) == [ts |-> ts, sequence |-> sequence]

InRange(ts, time_range) ==
    time_range.inclusive_start <= ts /\ ts < time_range.exclusive_end

\* Dedup by primary key: of the rows of a key the one of the greatest sequence.
Dedup(rows) ==
    {r \in rows : \A q \in rows : q.ts = r.ts => q.sequence <= r.sequence}

\* A flush publishes an SST at level 0: it gets the next file id, and holds a
\* row of the flush's sequence for each timestamp of its time range.
AddSst(time_range) ==
    /\ sst_count < MaxSsts
    /\ sst_count' = sst_count + 1
    /\ ssts' = ssts \cup
                 {[id |-> sst_count', level |-> 0, time_range |-> time_range,
                   rows |-> {Row(ts, sst_count') :
                               ts \in {t \in Timestamps : InRange(t, time_range)}}]}
    /\ UNCHANGED <<being_compacted, picked, running>>
    /\ UNCHANGED <<openVars, execVars, fileVars, recoverVars, closeVars, lateVars>>

\* FileHandle::intersect_with_time_range
IntersectWithTimeRange(file, time_range) ==
    /\ file.time_range.inclusive_start < time_range.exclusive_end
    /\ time_range.inclusive_start < file.time_range.exclusive_end

\* The files of a level's FileHandleSet.
LevelFiles(level) == {f \in ssts : f.level = level}

\* Timestamp::MIN: below every timestamp of a file.
TimestampMIN == -1

\* FileOrdKey::key_of: files are ordered by (end_time, start_time, file_id).
KeyOf_IdFirst(file) ==
    <<file.id, file.time_range.exclusive_end, file.time_range.inclusive_start>>

KeyOf(file) ==
    <<file.time_range.exclusive_end, file.time_range.inclusive_start, file.id>>

\* A seek key past the files that end right after the given time.
ForSeek_Far(exclusive_end) == <<exclusive_end + 2, TimestampMIN, 0>>

\* FileOrdKey::for_seek
ForSeek(exclusive_end) == <<exclusive_end, TimestampMIN, 0>>

\* The derived Ord of FileOrdKey: field by field, in the order of declaration.
KeyLess(a, b) ==
    \/ a[1] < b[1]
    \/ a[1] = b[1] /\ a[2] < b[2]
    \/ a[1] = b[1] /\ a[2] = b[2] /\ a[3] < b[3]

\* FileHandleSet.file_map.values(): the files in ascending order of their keys.
RECURSIVE FileMapValues(_)
FileMapValues(files) ==
    IF files = {}
    THEN <<>>
    ELSE LET first == CHOOSE f \in files :
                         \A g \in files \ {f} : KeyLess(KeyOf(f), KeyOf(g))
         IN  <<first>> \o FileMapValues(files \ {first})

\* FileHandleSet::files_by_time_range: of the files from the seek key
\* (time_range.inclusive_start, Timestamp::MIN, 0) on, those that intersect
\* the range.
FilesByTimeRange(files, time_range) ==
    LET seek_key == ForSeek(time_range.inclusive_start)
        values == FileMapValues(files)
    IN  {values[i] : i \in {j \in 1..Len(values) :
                                /\ ~KeyLess(KeyOf(values[j]), seek_key)
                                /\ IntersectWithTimeRange(values[j], time_range)}}

\* TimeRange::is_expired: the range ends at or before the expire time; without
\* an expire time (no TTL) nothing is expired. An Option is the empty set or a
\* set of one value.
IsExpired(time_range, expire_time) ==
    \E t \in expire_time : time_range.exclusive_end <= t

\* FileHandleSet::collect_expired: the files in key order up to the first one
\* that is not expired, where the scan breaks.
CollectExpired(files, expire_time) ==
    LET values == FileMapValues(files)
        alive == {i \in 1..Len(values) :
                     ~IsExpired(values[i].time_range, expire_time)}
        stop == IF alive = {}
                THEN Len(values) + 1
                ELSE CHOOSE i \in alive : \A j \in alive : i <= j
    IN  {values[i] : i \in 1..(stop - 1)}

\* FileHandleSet::has_expired_sst: whether the first file in key order is
\* expired.
HasExpiredSst(files, expire_time) ==
    LET values == FileMapValues(files)
    IN  /\ values # <<>>
        /\ IsExpired(values[1].time_range, expire_time)

\* LevelHandler::pick_ssts: the files of level 0 that intersect the range; of
\* any other level, none.
PickSsts(level, time_range) ==
    IF level = 0
    THEN FilesByTimeRange(LevelFiles(level), time_range)
    ELSE {}

\* TableVersion::pick_read_view, the SSTs: what pick_ssts gives for each level.
LeveledSsts(time_range) == [level \in Levels |-> PickSsts(level, time_range)]

\* The rows a read of time_range returns: the rows within the range of the
\* SSTs of the read view, merged with dedup.
ReadRows(time_range) ==
    LET view == LeveledSsts(time_range)
        files == UNION {view[level] : level \in Levels}
    IN  Dedup({r \in UNION {f.rows : f \in files} : InRange(r.ts, time_range)})

\* A flag that is never seen set.
BeingCompacted_Never(file) == FALSE

\* FileHandle::being_compacted
BeingCompacted(file) == file.id \in being_compacted

\* FileHandle::set_being_compacted on each file of a task.
SetBeingCompacted(flags, file_ids, value) ==
    IF value THEN flags \cup file_ids ELSE flags \ file_ids

\* The scheduler handles a compaction request of the table: the picker takes
\* files of level 0 that are not flagged being_compacted.
CompactionPick ==
    /\ ~picked.some
    /\ \E inputs \in SUBSET {f \in LevelFiles(0) : ~BeingCompacted(f)} :
          /\ inputs # {}
          /\ picked' = [some |-> TRUE, inputs |-> {f.id : f \in inputs}]
    /\ UNCHANGED <<ssts, being_compacted, running, sst_count>>
    /\ UNCHANGED <<openVars, execVars, fileVars, recoverVars, closeVars, lateVars>>

\* Start of the execution of the picked task: its inputs are flagged, and the
\* scheduler goes on to its next request.
CompactionStart ==
    /\ picked.some
    /\ being_compacted' = SetBeingCompacted(being_compacted, picked.inputs, TRUE)
    /\ running' = running \cup {picked.inputs}
    /\ picked' = NoTask
    /\ UNCHANGED <<ssts, sst_count>>
    /\ UNCHANGED <<openVars, execVars, fileVars, recoverVars, closeVars, lateVars>>

\* The SST a compaction of `files` writes: at level 1, over the time range
\* that covers the inputs, with the rows of the inputs merged with dedup.
CompactionOutput(files, file_id) ==
    [id |-> file_id,
     level |-> 1,
     time_range |->
        [inclusive_start |->
            CHOOSE a \in {f.time_range.inclusive_start : f \in files} :
                \A f \in files : a <= f.time_range.inclusive_start,
         exclusive_end |->
            CHOOSE b \in {f.time_range.exclusive_end : f \in files} :
                \A f \in files : b >= f.time_range.exclusive_end],
     rows |-> Dedup(UNION {f.rows : f \in files})]

\* A compaction ends. Done, its version edit takes the inputs out of the
\* version and adds the output; failed, the inputs stay. The flags of the
\* inputs are cleared in both cases.
CompactionEnd(inputs, done) ==
    /\ inputs \in running
    /\ running' = running \ {inputs}
    /\ being_compacted' = SetBeingCompacted(being_compacted, inputs, FALSE)
    /\ IF done
       THEN /\ sst_count < MaxSsts
            /\ sst_count' = sst_count + 1
            /\ LET files == {f \in ssts : f.id \in inputs}
               IN  ssts' = (ssts \ files) \cup {CompactionOutput(files, sst_count')}
       ELSE UNCHANGED <<ssts, sst_count>>
    /\ UNCHANGED picked
    /\ UNCHANGED <<openVars, execVars, fileVars, recoverVars, closeVars, lateVars>>

\* ================================================================== file set calls
\* Option<Timestamp> of an expire time: None, or a time up to the end of time.
ExpireTimes == {{}} \cup {{t} : t \in 0..MaxTime}

NoLevelCall ==
    [op |-> "none", level |-> 0, files |-> {}, expire_time |-> {},
     time_range |-> {}, result |-> {}, flag |-> FALSE]

InitSet == level_call = NoLevelCall

\* The part at rest: no call made.
QuietSet == InitSet

\* LevelHandler::collect_expired, into an empty expired_files.
CollectExpiredOfLevel(level, expire_time) ==
    /\ level_call' =
          [NoLevelCall EXCEPT !.op = "collect_expired",
                              !.level = level,
                              !.files = LevelFiles(level),
                              !.expire_time = expire_time,
                              !.result = CollectExpired(LevelFiles(level), expire_time)]
    /\ UNCHANGED <<openVars, execVars, fileVars, recoverVars, closeVars, compactVars>>
    /\ UNCHANGED <<manualVars, readVars, moreVars>>

\* LevelHandler::has_expired_sst
HasExpiredSstOfLevel(level, expire_time) ==
    /\ level_call' =
          [NoLevelCall EXCEPT !.op = "has_expired_sst",
                              !.level = level,
                              !.files = LevelFiles(level),
                              !.expire_time = expire_time,
                              !.flag = HasExpiredSst(LevelFiles(level), expire_time)]
    /\ UNCHANGED <<openVars, execVars, fileVars, recoverVars, closeVars, compactVars>>
    /\ UNCHANGED <<manualVars, readVars, moreVars>>

\* LevelHandler::pick_ssts
PickSstsOfLevel(level, time_range) ==
    /\ level_call' =
          [NoLevelCall EXCEPT !.op = "pick_ssts",
                              !.level = level,
                              !.files = LevelFiles(level),
                              !.time_range = {time_range},
                              !.result = PickSsts(level, time_range)]
    /\ UNCHANGED <<openVars, execVars, fileVars, recoverVars, closeVars, compactVars>>
    /\ UNCHANGED <<manualVars, readVars, moreVars>>

\* ================================================================== manual compaction
\* A manual compaction that made no call yet.
InitManual ==
    /\ compact_queue = <<>>
    /\ mpc = [p \in Callers |-> "idle"]
    /\ compact_chan = [p \in Callers |-> "Empty"]
    /\ schedule_succeed = [p \in Callers |-> FALSE]
    /\ compact_result = [p \in Callers |-> "none"]

QuietManual == InitManual

\* The scheduler's pending queue is full.
QueueFull == Len(compact_queue) >= MaxPending

\* A request of the engine itself (after a flush): queued when there is room,
\* dropped when the queue is full.
ScheduleTableCompaction ==
    /\ ~QueueFull
    /\ compact_queue' = Append(compact_queue, 0)
    /\ UNCHANGED <<mpc, compact_chan, schedule_succeed, compact_result>>
    /\ UNCHANGED <<openVars, execVars, fileVars, recoverVars, closeVars, compactVars>>
    /\ UNCHANGED <<setVars, readVars, moreVars>>

\* A rejection that keeps the request, and with it the result sender, alive.
ManualCompactTable_KeepsSender(p, rejected) ==
    /\ mpc[p] = "idle"
    /\ schedule_succeed' = [schedule_succeed EXCEPT ![p] = ~QueueFull]
    /\ compact_queue' = IF ~QueueFull THEN Append(compact_queue, p) ELSE compact_queue
    /\ compact_chan' = [compact_chan EXCEPT ![p] = "Empty"]
    /\ mpc' = [mpc EXCEPT ![p] = "wait"]
    /\ compact_result' = [compact_result EXCEPT ![p] = "none"]
    /\ UNCHANGED <<openVars, execVars, fileVars, recoverVars, closeVars, compactVars>>
    /\ UNCHANGED <<setVars, readVars, moreVars>>

\* manual_compact_table up to its wait: the request and its result channel
\* are made and the request is handed to schedule_table_compaction, which
\* queues it or, the queue full, rejects it. Of a rejected request the result
\* sender is dropped, with or without an error sent through it before.
ManualCompactTable(p, rejected) ==
    /\ mpc[p] = "idle"
    /\ schedule_succeed' = [schedule_succeed EXCEPT ![p] = ~QueueFull]
    /\ IF ~QueueFull
       THEN /\ compact_queue' = Append(compact_queue, p)
            /\ compact_chan' = [compact_chan EXCEPT ![p] = "Empty"]
       ELSE /\ compact_queue' = compact_queue
            /\ compact_chan' = [compact_chan EXCEPT ![p] = rejected]
    /\ mpc' = [mpc EXCEPT ![p] = "wait"]
    /\ compact_result' = [compact_result EXCEPT ![p] = "none"]
    /\ UNCHANGED <<openVars, execVars, fileVars, recoverVars, closeVars, compactVars>>
    /\ UNCHANGED <<setVars, readVars, moreVars>>

\* The scheduler takes the request at the head of its queue; the compaction
\* of a manual request sends its result to the waiter, or drops the sender.
HandleCompactionRequest(outcome) ==
    /\ compact_queue # <<>>
    /\ compact_queue' = Tail(compact_queue)
    /\ compact_chan' =
          IF Head(compact_queue) = 0
          THEN compact_chan
          ELSE [compact_chan EXCEPT ![Head(compact_queue)] = outcome]
    /\ UNCHANGED <<mpc, schedule_succeed, compact_result>>
    /\ UNCHANGED <<openVars, execVars, fileVars, recoverVars, closeVars, compactVars>>
    /\ UNCHANGED <<setVars, readVars, moreVars>>

\* The result of a manual operation from what its receiver gets: a dropped
\* sender is RecvManualOpResult, an error sent is wrapped into ManualOp.
ManualOpResult(received) ==
    CASE received = "Ok" -> "Ok"
      [] received = "Err" -> "ErrManualOp"
      [] received = "Dropped" -> "ErrRecvManualOpResult"

\* manual_compact_table from rx.await on: it returns what ManualOpResult
\* makes of the received result.
ManualCompactWait(p) ==
    /\ mpc[p] = "wait"
    /\ compact_chan[p] # "Empty"
    /\ compact_result' = [compact_result EXCEPT ![p] = ManualOpResult(compact_chan[p])]
    /\ compact_chan' = [compact_chan EXCEPT ![p] = "Empty"]
    /\ mpc' = [mpc EXCEPT ![p] = "idle"]
    /\ UNCHANGED <<compact_queue, schedule_succeed>>
    /\ UNCHANGED <<openVars, execVars, fileVars, recoverVars, closeVars, compactVars>>
    /\ UNCHANGED <<setVars, readVars, moreVars>>

\* ================================================================== read path
\* The memtables and SSTs a read view is made of: an SST of a level or a
\* memtable, over a time range.
SourceShapes ==
    [kind : {"sst"}, level : Levels, time_range : TimeRanges]
        \cup [kind : {"memtable"}, level : {0}, time_range : TimeRanges]

\* Age order of the sources of a view: SSTs of level 1 are older than SSTs of
\* level 0, which are older than memtables.
ShapeRank(shape) ==
    (IF shape.kind = "memtable" THEN 2 ELSE 1 - shape.level) * (MaxTime + 1) * (MaxTime + 1)
        + shape.time_range.inclusive_start * (MaxTime + 1)
        + shape.time_range.exclusive_end

\* A source of the view: each holds a row for each timestamp of its time
\* range, written under the source's own sequence (older sources lower).
SourceOf(shape, shapes) ==
    [kind |-> shape.kind, level |-> shape.level, time_range |-> shape.time_range,
     sequence |-> Cardinality({t \in shapes : ShapeRank(t) <= ShapeRank(shape)})]

\* The sampling memtable of a table in its sampling phase: over all times,
\* the newest source.
SamplingMem(shapes) ==
    [kind |-> "sampling", level |-> 0,
     time_range |-> [inclusive_start |-> 0, exclusive_end |-> MaxTime],
     sequence |-> Cardinality(shapes) + 1]

\* ReadView::default
EmptyReadView ==
    [sampling_mem |-> {}, memtables |-> {}, leveled_ssts |-> [level \in Levels |-> {}]]

\* The read view of a version with the given memtables and SSTs.
ReadViewOf(shapes, sampling) ==
    [sampling_mem |-> IF sampling THEN {SamplingMem(shapes)} ELSE {},
     memtables |-> {SourceOf(t, shapes) : t \in {u \in shapes : u.kind = "memtable"}},
     leveled_ssts |->
         [level \in Levels |->
             {SourceOf(t, shapes) :
                 t \in {u \in shapes : u.kind = "sst" /\ u.level = level}}]]

\* The read views of the versions of a table: a sampling memtable never
\* coexists with a regular memtable.
ReadViews ==
    {ReadViewOf(x[1], x[2]) :
        x \in {y \in {t \in SUBSET SourceShapes : Cardinality(t) <= MaxSources}
                        \X BOOLEAN :
                  y[2] => \A u \in y[1] : u.kind # "memtable"}}

\* TableOptions: the dedup flag and the segment duration, None while sampling.
\* An Option is the empty set or a set of one value.
TableOptions ==
    [need_dedup : BOOLEAN,
     segment_duration : {{}} \cup {{d} : d \in 1..MaxTime}]

\* ReadRequest: the order and opts.read_parallelism.
ReadRequests ==
    [order : {"None", "Asc", "Desc"}, read_parallelism : 1..MaxParallelism]

NoReadCall ==
    [done |-> FALSE,
     table_options |-> [need_dedup |-> FALSE, segment_duration |-> {}],
     request |-> [order |-> "None", read_parallelism |-> 1],
     outcome |-> "none",
     read_views |-> <<>>,
     streams |-> <<>>]

InitRead ==
    /\ read_view \in ReadViews
    /\ read_call = NoReadCall

\* The part at rest: an empty view, no read made.
QuietRead ==
    /\ read_view = EmptyReadView
    /\ read_call = NoReadCall

\* ReadOrder::is_in_order
IsInOrder(order) == order \in {"Asc", "Desc"}

\* ReadOrder::is_out_of_order
IsOutOfOrder(order) == order = "None"

\* ReadOrder::is_in_desc_order
IsInDescOrder(order) == order = "Desc"

\* A read that sorts for the dedup flag only.
NeedMergeSortStreams_DedupOnly(table_options, request) == table_options.need_dedup

\* need_merge_sort_streams
NeedMergeSortStreams(table_options, request) ==
    table_options.need_dedup \/ IsInOrder(request.order)

\* Timestamp::truncate_by
TruncateBy(ts, duration) == (ts \div duration) * duration

\* A bucket taken from the end of the source's time range.
AlignedTs_OfEnd(source, segment_duration) ==
    TruncateBy(source.time_range.exclusive_end - 1, segment_duration)

\* aligned_ts of a file or memtable in partition_ssts_and_memtables.
AlignedTs(source, segment_duration) ==
    TruncateBy(source.time_range.inclusive_start, segment_duration)

\* ReadView::contains_sampling
ContainsSampling(view) == view.sampling_mem # {}

\* The memtables and SSTs of a view.
ViewSources(view) ==
    view.sampling_mem \cup view.memtables
        \cup UNION {view.leveled_ssts[level] : level \in Levels}

\* The numbers of a set in ascending order (the key order of a BTreeMap).
RECURSIVE Ascending(_)
Ascending(numbers) ==
    IF numbers = {}
    THEN <<>>
    ELSE LET least == CHOOSE n \in numbers : \A m \in numbers : n <= m
         IN  <<least>> \o Ascending(numbers \ {least})

\* partition_ssts_and_memtables, from the picked read view on.
PartitionSstsAndMemtables(view, table_options) ==
    IF table_options.segment_duration = {}
    THEN <<view>>
    ELSE IF ContainsSampling(view)
    THEN <<view>>
    ELSE LET segment_duration == CHOOSE d \in table_options.segment_duration : TRUE
             keys == Ascending({AlignedTs(source, segment_duration) :
                                   source \in ViewSources(view)})
         IN  [i \in 1..Len(keys) |->
                 [sampling_mem |-> {},
                  memtables |->
                      {m \in view.memtables :
                          AlignedTs(m, segment_duration) = keys[i]},
                  leveled_ssts |->
                      [level \in Levels |->
                          {f \in view.leveled_ssts[level] :
                              AlignedTs(f, segment_duration) = keys[i]}]]]

\* A merge iterator handed on as it is.
MergeIter_Unwrapped(sub_view, table_options, request) ==
    [kind |-> "merge", read_view |-> sub_view,
     reverse |-> IsInDescOrder(request.order)]

\* The iterator build_merge_iters makes of a sub-view: a MergeIterator wrapped
\* in a DedupIterator.
MergeIter(sub_view, table_options, request) ==
    [kind |-> "dedup", read_view |-> sub_view,
     reverse |-> IsInDescOrder(request.order)]

\* build_merge_iters: one iterator for each sub-view.
BuildMergeIters(view, table_options, request) ==
    LET read_views == PartitionSstsAndMemtables(view, table_options)
    IN  [i \in 1..Len(read_views) |-> MergeIter(read_views[i], table_options, request)]

\* build_chain_iters past its assertion: one ChainIterator for each sub-view.
BuildChainIters(view, table_options, request) ==
    LET read_views == PartitionSstsAndMemtables(view, table_options)
    IN  [i \in 1..Len(read_views) |->
            [kind |-> "chain", read_view |-> read_views[i], reverse |-> FALSE]]

\* Vec::reverse
Reverse(seq) == [i \in 1..Len(seq) |-> seq[Len(seq) + 1 - i]]

\* A reversal for every descending read.
ReverseIters_AnyParallelism(request) == IsInDescOrder(request.order)

\* Whether build_partitioned_streams reverses the iterators.
ReverseIters(request) ==
    request.read_parallelism = 1 /\ IsInDescOrder(request.order)

\* Every iterator in the first group.
LaneOf_First(i, read_parallelism) == 0

\* The group of the iterator at index i (from 0) in splited_iters.
LaneOf(i, read_parallelism) == i % read_parallelism

\* build_partitioned_streams: read_parallelism streams, the iterators dealt
\* to them by index.
BuildPartitionedStreams(request, partitioned_iters) ==
    LET read_parallelism == request.read_parallelism
        iters == IF ReverseIters(request)
                 THEN Reverse(partitioned_iters)
                 ELSE partitioned_iters
        indexes == [i \in 1..Len(iters) |-> i]
    IN  [lane \in 1..read_parallelism |->
            LET mine == SelectSeq(indexes,
                                  LAMBDA i : LaneOf(i - 1, read_parallelism) = lane - 1)
            IN  [k \in 1..Len(mine) |-> iters[mine[k]]]]

\* partitioned_read_from_table: merge iterators or chain iterators, then the
\* streams. The assertion of build_chain_iters panics on an ordered request.
\* read_views keeps what partition_ssts_and_memtables returned to the builder.
PartitionedReadFromTable(table_options, request) ==
    /\ ~read_call.done
    /\ read_call' =
          IF NeedMergeSortStreams(table_options, request)
          THEN [done |-> TRUE, table_options |-> table_options, request |-> request,
                outcome |-> "Ok",
                read_views |-> PartitionSstsAndMemtables(read_view, table_options),
                streams |-> BuildPartitionedStreams(
                                request,
                                BuildMergeIters(read_view, table_options, request))]
          ELSE IF ~IsOutOfOrder(request.order)
          THEN [done |-> TRUE, table_options |-> table_options, request |-> request,
                outcome |-> "Panic", read_views |-> <<>>, streams |-> <<>>]
          ELSE [done |-> TRUE, table_options |-> table_options, request |-> request,
                outcome |-> "Ok",
                read_views |-> PartitionSstsAndMemtables(read_view, table_options),
                streams |-> BuildPartitionedStreams(
                                request,
                                BuildChainIters(read_view, table_options, request))]
    /\ UNCHANGED read_view
    /\ UNCHANGED <<openVars, execVars, fileVars, recoverVars, closeVars, compactVars>>
    /\ UNCHANGED <<setVars, manualVars, moreVars>>

\* The rows of a source: one for each timestamp of its time range.
SourceRows(source) ==
    {Row(ts, source.sequence) :
        ts \in {t \in Timestamps : InRange(t, source.time_range)}}

\* MergeIterator: the rows of its inputs by ascending key (descending when
\* reversed), of one key the higher sequence first.
RECURSIVE MergeRows(_, _)
MergeRows(rows, reverse) ==
    IF rows = {}
    THEN <<>>
    ELSE LET first ==
                 CHOOSE r \in rows :
                     \A q \in rows \ {r} :
                         \/ IF reverse THEN q.ts < r.ts ELSE r.ts < q.ts
                         \/ q.ts = r.ts /\ q.sequence < r.sequence
         IN  <<first>> \o MergeRows(rows \ {first}, reverse)

\* DedupIterator: the first row of each run of one key.
DedupRows(merged) ==
    SelectSeq([i \in 1..Len(merged) |-> <<i, merged[i]>>],
              LAMBDA e : e[1] = 1 \/ merged[e[1] - 1].ts # e[2].ts)

\* The sources of a view in the order a ChainIterator goes through them.
RECURSIVE ChainOrder(_)
ChainOrder(sources) ==
    IF sources = {}
    THEN <<>>
    ELSE LET first == CHOOSE s \in sources :
                         \A t \in sources : s.sequence >= t.sequence
         IN  <<first>> \o ChainOrder(sources \ {first})

\* ChainIterator: the rows of its inputs one input after the other, neither
\* sorted nor deduplicated.
RECURSIVE ChainRows(_)
ChainRows(sources) ==
    IF sources = <<>>
    THEN <<>>
    ELSE MergeRows(SourceRows(Head(sources)), FALSE) \o ChainRows(Tail(sources))

\* The rows an iterator of the read yields, in order.
IterRows(iter) ==
    LET rows == UNION {SourceRows(source) : source \in ViewSources(iter.read_view)}
    IN  CASE iter.kind = "dedup" ->
                 LET kept == DedupRows(MergeRows(rows, iter.reverse))
                 IN  [i \in 1..Len(kept) |-> kept[i][2]]
          [] iter.kind = "merge" -> MergeRows(rows, iter.reverse)
          [] iter.kind = "chain" -> ChainRows(ChainOrder(ViewSources(iter.read_view)))

\* iters_to_stream: the rows of the iterators of a stream, one iterator after
\* the other.
RECURSIVE StreamRows(_)
StreamRows(iters) ==
    IF iters = <<>>
    THEN <<>>
    ELSE IterRows(Head(iters)) \o StreamRows(Tail(iters))


\* ================================================================== file handle set
MaxSetCalls == 3

\* The handles a version may be given: an id and a time range each.
FileHandles == [id : FileIds, time_range : TimeRanges]

NoSetCall == [n |-> 0, op |-> "none", file |-> {}, file_ids |-> {}]

InitIndex ==
    /\ file_map = {}
    /\ id_to_files = {}
    /\ set_call = NoSetCall

\* The part at rest: an empty set, no call made.
QuietIndex == InitIndex

\* HashSet::insert of a FileHandleHash, which is equal to the handles of the
\* same id: when the set holds one, it is kept and the new one is not added.
HashSetInsert(set, file) ==
    IF \E h \in set : h.id = file.id
    THEN set
    ELSE set \cup {file}

\* BTreeMap::insert under FileOrdKey::key_of(&file): the value of that key is
\* replaced, every other key stays.
BTreeMapInsert(map, file) == {h \in map : KeyOf(h) # KeyOf(file)} \cup {file}

\* FileHandleSet::insert
FileHandleSetInsert(file) ==
    /\ set_call.n < MaxSetCalls
    /\ file_map' = BTreeMapInsert(file_map, file)
    /\ id_to_files' = HashSetInsert(id_to_files, file)
    /\ set_call' = [n |-> set_call.n + 1, op |-> "insert", file |-> {file},
                    file_ids |-> {}]
    /\ UNCHANGED <<earlyVars, laneVars, spaceVars, tableVars, usageVars>>

\* FileHandleSet::remove_by_ids, one id: the handle id_to_files holds for the
\* id is taken, and the entry of file_map under the key of that handle goes.
RECURSIVE RemoveByIdsOf(_, _)
RemoveByIdsOf(set, file_ids) ==
    IF file_ids = {}
    THEN set
    ELSE LET file_id == CHOOSE x \in file_ids : TRUE
             taken == {h \in set.id_to_files : h.id = file_id}
         IN  RemoveByIdsOf(
                 [id_to_files |-> set.id_to_files \ taken,
                  file_map |-> {g \in set.file_map :
                                   \A h \in taken : KeyOf(g) # KeyOf(h)}],
                 file_ids \ {file_id})

\* FileHandleSet::remove_by_ids
FileHandleSetRemoveByIds(file_ids) ==
    /\ set_call.n < MaxSetCalls
    /\ LET set == RemoveByIdsOf([id_to_files |-> id_to_files, file_map |-> file_map],
                                file_ids)
       IN  /\ file_map' = set.file_map
           /\ id_to_files' = set.id_to_files
    /\ set_call' = [n |-> set_call.n + 1, op |-> "remove_by_ids", file |-> {},
                    file_ids |-> file_ids]
    /\ UNCHANGED <<earlyVars, laneVars, spaceVars, tableVars, usageVars>>

\* ================================================================== read lane
\* The capacity of a lane's channel (RECORD_BATCH_READ_BUF_SIZE, 1000 in the
\* program), the iterators of a lane and the batches of an iterator.
RecordBatchReadBufSize == 2
MaxLaneIters == 2
MaxIterBatches == 3

\* The collections a lane may be given: for each iterator, in order, the
\* number of record batches it yields before it is exhausted.
LaneCollections ==
    UNION {[1..n -> 0..MaxIterBatches] : n \in 0..MaxLaneIters}

InitLane ==
    /\ lane_iters \in LaneCollections
    /\ lane_pc = "next_batch"
    /\ lane_batch = 0
    /\ lane_chan = <<>>
    /\ rx_alive = TRUE

\* The part at rest: a lane without iterator.
QuietLane ==
    /\ lane_iters = <<>>
    /\ lane_pc = "next_batch"
    /\ lane_batch = 0
    /\ lane_chan = <<>>
    /\ rx_alive = TRUE

\* A channel that takes a batch whatever it holds.
ChannelHasRoom_Always == TRUE

\* mpsc::channel(RECORD_BATCH_READ_BUF_SIZE): a send goes through while the
\* channel holds fewer batches than its capacity.
ChannelHasRoom == Len(lane_chan) < RecordBatchReadBufSize

\* The head of the loops of the task: with no iterator left the task ends and
\* the sender is dropped; an exhausted iterator (next_batch gives None) ends
\* the inner loop and the next one is taken; else the iterator yields a batch.
LaneNextBatch ==
    /\ lane_pc = "next_batch"
    /\ IF lane_iters = <<>>
       THEN /\ lane_pc' = "done"
            /\ UNCHANGED <<lane_iters, lane_batch>>
       ELSE IF lane_iters[1] = 0
            THEN /\ lane_iters' = Tail(lane_iters)
                 /\ UNCHANGED <<lane_pc, lane_batch>>
            ELSE /\ lane_iters' = [lane_iters EXCEPT ![1] = @ - 1]
                 /\ lane_batch' = lane_iters[1]
                 /\ lane_pc' = "send"
    /\ UNCHANGED <<lane_chan, rx_alive>>
    /\ UNCHANGED <<earlyVars, indexVars, spaceVars, tableVars, usageVars>>

\* tx.send(record_batch).await: an error once the receiver is gone, and the
\* break leaves the loop of the current iterator; else the send waits until
\* the channel has room and puts the batch at its end.
LaneSend ==
    /\ lane_pc = "send"
    /\ IF ~rx_alive
       THEN /\ lane_iters' = Tail(lane_iters)
            /\ UNCHANGED lane_chan
       ELSE /\ ChannelHasRoom
            /\ lane_chan' = Append(lane_chan, lane_batch)
            /\ UNCHANGED lane_iters
    /\ lane_pc' = "next_batch"
    /\ lane_batch' = 0
    /\ UNCHANGED rx_alive
    /\ UNCHANGED <<earlyVars, indexVars, spaceVars, tableVars, usageVars>>

\* ChannelledRecordBatchStream::poll_next: the consumer takes a batch.
LanePollNext ==
    /\ rx_alive
    /\ lane_chan # <<>>
    /\ lane_chan' = Tail(lane_chan)
    /\ UNCHANGED <<lane_iters, lane_pc, lane_batch, rx_alive>>
    /\ UNCHANGED <<earlyVars, indexVars, spaceVars, tableVars, usageVars>>

\* The consumer drops the stream: the receiver goes with the batches left in
\* the channel.
LaneDropStream ==
    /\ rx_alive
    /\ rx_alive' = FALSE
    /\ lane_chan' = <<>>
    /\ UNCHANGED <<lane_iters, lane_pc, lane_batch>>
    /\ UNCHANGED <<earlyVars, indexVars, spaceVars, tableVars, usageVars>>

\* ================================================================== open_space
MaxSpaceCalls == 4

SpaceIds == {1, 2}

\* No Space: the None of get_by_id, and the result of a call not yet returned.
NoSpace == {}

NoSpaceCall == [space_id |-> 0, space |-> NoSpace, by |-> "none"]

InitSpace ==
    /\ spaces = [space_id \in SpaceIds |-> NoSpace]
    /\ spaces_made = [space_id \in SpaceIds |-> 0]
    /\ space_pc = [c \in Callers |-> "idle"]
    /\ space_call = [c \in Callers |-> NoSpaceCall]
    /\ space_calls = 0

\* The part at rest: no space, nobody calls open_space.
QuietSpace == InitSpace

\* A lookup that finds no space.
GetById_None(map, space_id) == NoSpace

\* Spaces::get_by_id
GetById(map, space_id) == map[space_id]

\* open_space, under the read lock: the space of that id is returned when the
\* map has one; else the call goes on to take the write lock.
OpenSpace(c, space_id) ==
    /\ space_pc[c] = "idle"
    /\ space_calls < MaxSpaceCalls
    /\ space_calls' = space_calls + 1
    /\ LET space == GetById(spaces, space_id)
       IN  IF space # NoSpace
           THEN /\ space_call' = [space_call EXCEPT ![c] =
                       [space_id |-> space_id, space |-> space, by |-> "read"]]
                /\ UNCHANGED space_pc
           ELSE /\ space_call' = [space_call EXCEPT ![c] =
                       [space_id |-> space_id, space |-> NoSpace, by |-> "none"]]
                /\ space_pc' = [space_pc EXCEPT ![c] = "write"]
    /\ UNCHANGED <<spaces, spaces_made>>
    /\ UNCHANGED <<earlyVars, indexVars, laneVars, tableVars, usageVars>>

\* open_space, under the write lock: the second lookup returns the space
\* another caller has inserted meanwhile; else Space::new makes the space and
\* it is inserted into the map.
OpenSpaceWrite(c) ==
    /\ space_pc[c] = "write"
    /\ LET space_id == space_call[c].space_id
           space == GetById(spaces, space_id)
       IN  IF space # NoSpace
           THEN /\ space_call' = [space_call EXCEPT ![c].space = space,
                                                    ![c].by = "double_check"]
                /\ UNCHANGED <<spaces, spaces_made>>
           ELSE /\ spaces_made' = [spaces_made EXCEPT ![space_id] = @ + 1]
                /\ spaces' = [spaces EXCEPT ![space_id] = {spaces_made'[space_id]}]
                /\ space_call' = [space_call EXCEPT ![c].space = spaces'[space_id],
                                                    ![c].by = "new"]
    /\ space_pc' = [space_pc EXCEPT ![c] = "idle"]
    /\ UNCHANGED space_calls
    /\ UNCHANGED <<earlyVars, indexVars, laneVars, tableVars, usageVars>>

\* ================================================================== concurrent opens
MaxTableOpens == 3

\* No TableData: the None of find_table_by_id.
NoTable == {}

NoOpenCall == [table_data |-> NoTable, result |-> "none", got |-> NoTable]

InitTable ==
    /\ registered = NoTable
    /\ tables_made = 0
    /\ tables_inserted = 0
    /\ replayed = {}
    /\ failed_tables = FALSE
    /\ worker_chan = <<>>
    /\ open_pc = [c \in Callers |-> "idle"]
    /\ open_call = [c \in Callers |-> NoOpenCall]
    /\ open_calls = 0

\* The part at rest: the table is not open, nobody opens it.
QuietTable == InitTable

\* A lookup that finds no table.
FindTableById_None(tables) == NoTable

\* space.find_table_by_id(table_id), of the one table id of this part.
FindTableById(tables) == tables

\* do_open_table, its head: the TableData the space holds is returned; else
\* the call goes on to recover the table from the manifest.
OpenTableFind(c) ==
    /\ open_pc[c] = "idle"
    /\ open_calls < MaxTableOpens
    /\ open_calls' = open_calls + 1
    /\ LET exist == FindTableById(registered)
       IN  IF exist # NoTable
           THEN /\ open_call' = [open_call EXCEPT ![c] =
                       [table_data |-> NoTable, result |-> "Some", got |-> exist]]
                /\ UNCHANGED open_pc
           ELSE /\ open_call' = [open_call EXCEPT ![c] = NoOpenCall]
                /\ open_pc' = [open_pc EXCEPT ![c] = "meta"]
    /\ UNCHANGED <<registered, tables_made, tables_inserted, replayed, failed_tables,
                   worker_chan>>
    /\ UNCHANGED <<earlyVars, indexVars, laneVars, spaceVars, usageVars>>

\* recover_table_meta_data and the send of the RecoverTableCommand: an error
\* of the manifest is returned; without manifest data the call returns None;
\* else a TableData is made of the data and sent to the table's write worker.
OpenTableRecoverMeta(c, outcome) ==
    /\ open_pc[c] = "meta"
    /\ IF outcome = "Some"
       THEN /\ tables_made' = tables_made + 1
            /\ open_call' = [open_call EXCEPT ![c].table_data = {tables_made'}]
            /\ worker_chan' = Append(worker_chan,
                                     [caller |-> c, table_data |-> {tables_made'}])
            /\ open_pc' = [open_pc EXCEPT ![c] = "wait"]
       ELSE /\ open_call' = [open_call EXCEPT ![c].result = outcome]
            /\ open_pc' = [open_pc EXCEPT ![c] = "idle"]
            /\ UNCHANGED <<tables_made, worker_chan>>
    /\ UNCHANGED <<registered, tables_inserted, replayed, failed_tables, open_calls>>
    /\ UNCHANGED <<earlyVars, indexVars, laneVars, spaceVars, usageVars>>

\* The write worker of the table takes its next command, one at a time.
WorkerNextCommand == Head(worker_chan)

\* process_recover_table_command on the write worker: the TableData the
\* space holds meanwhile is returned; else the WAL is replayed into the
\* command's TableData, which is inserted into the space when the replay
\* succeeds and recorded as open_failed when it fails. The result goes to
\* the caller through the command's channel.
ProcessRecoverTableCommandOf(outcome) ==
    /\ worker_chan # <<>>
    /\ LET cmd == WorkerNextCommand
           exist == FindTableById(registered)
       IN  IF exist # NoTable
           THEN /\ outcome = "Ok"
                /\ open_call' = [open_call EXCEPT ![cmd.caller].result = "Some",
                                                  ![cmd.caller].got = exist]
                /\ UNCHANGED <<registered, tables_inserted, replayed, failed_tables>>
           ELSE /\ replayed' = replayed \cup cmd.table_data
                /\ IF outcome = "Ok"
                   THEN /\ registered' = cmd.table_data
                        /\ tables_inserted' = tables_inserted + 1
                        /\ open_call' = [open_call EXCEPT
                                            ![cmd.caller].result = "Some",
                                            ![cmd.caller].got = cmd.table_data]
                        /\ UNCHANGED failed_tables
                   ELSE /\ failed_tables' = TRUE
                        /\ open_call' = [open_call EXCEPT ![cmd.caller].result = "Err"]
                        /\ UNCHANGED <<registered, tables_inserted>>
    /\ worker_chan' = Tail(worker_chan)
    /\ UNCHANGED <<tables_made, open_pc, open_calls>>
    /\ UNCHANGED <<earlyVars, indexVars, laneVars, spaceVars, usageVars>>

\* do_open_table, its end: the result of the command is received.
OpenTableResult(c) ==
    /\ open_pc[c] = "wait"
    /\ open_call[c].result # "none"
    /\ open_pc' = [open_pc EXCEPT ![c] = "idle"]
    /\ UNCHANGED <<registered, tables_made, tables_inserted, replayed, failed_tables,
                   worker_chan, open_call, open_calls>>
    /\ UNCHANGED <<earlyVars, indexVars, laneVars, spaceVars, usageVars>>

\* ================================================================== flush trigger
MaxUsageSpaces == 2
MaxSpaceUsage == 3
MaxDbWriteBufferSize == 4

\* What list_all_spaces() may give: the memtable bytes of each space.
SpaceUsages ==
    UNION {[1..n -> 0..MaxSpaceUsage] : n \in 0..MaxUsageSpaces}

\* No call yet.
NoTriggerCall == [called |-> FALSE, result |-> FALSE]

\* An engine with some limit and some spaces, and no call of the trigger.
InitUsage ==
    /\ db_write_buffer_size \in 0..MaxDbWriteBufferSize
    /\ memtable_memory_usage \in SpaceUsages
    /\ flush_instance = NoTriggerCall

\* The part at rest: a limit of 0, no space.
QuietUsage ==
    /\ db_write_buffer_size = 0
    /\ memtable_memory_usage = <<>>
    /\ flush_instance = NoTriggerCall

\* spaces.into_iter().map(|t| t.memtable_memory_usage()).sum()
RECURSIVE TotalMemoryUsageSpace(_)
TotalMemoryUsageSpace(usages) ==
    IF usages = <<>> THEN 0
    ELSE Head(usages) + TotalMemoryUsageSpace(Tail(usages))

\* A trigger that does not look whether the limit is set.
ShouldFlushInstance_AnyLimit(size, usages) ==
    TotalMemoryUsageSpace(usages) >= size

\* self.db_write_buffer_size > 0 && total_memory_usage_space() >= size
ShouldFlushInstance(size, usages) ==
    /\ size > 0
    /\ TotalMemoryUsageSpace(usages) >= size

\* should_flush_instance is called.
ShouldFlushInstanceCall ==
    /\ ~flush_instance.called
    /\ flush_instance' =
          [called |-> TRUE,
           result |-> ShouldFlushInstance(db_write_buffer_size, memtable_memory_usage)]
    /\ UNCHANGED <<db_write_buffer_size, memtable_memory_usage>>
    /\ UNCHANGED <<earlyVars, indexVars, laneVars, spaceVars, tableVars>>

\* The parts on single structures at rest.
QuietMore == QuietIndex /\ QuietLane /\ QuietSpace /\ QuietTable /\ QuietUsage

\* ================================================================== specifications
\* The parts on single calls at rest.
QuietLate == QuietSet /\ QuietManual /\ QuietRead /\ QuietMore

\* The further parts (file id counter, shutdown, compaction) at rest.
QuietRest == QuietRecover /\ QuietClose /\ QuietCompact /\ QuietLate

Init == InitOpen /\ InitExec /\ InitFiles /\ QuietRest

Next ==
    \/ DoOpenTable
    \/ ProcessRecoverTableCommand
    \/ FetchLogEntries
    \/ ReplayEmptyBatch
    \/ ReplayLogEntry
    \/ ReplayFlushCheck
    \/ ReplayBatchEnd
    \/ RecoverFailed
    \/ RecoverDone

\* Opening a table: manifest recovery and WAL replay.
Spec == Init /\ [][Next]_vars

InitSerialExec == QuietOpen /\ InitExec /\ InitFiles /\ QuietRest

NextSerialExec ==
    \/ \E p \in Callers, request_sync \in BOOLEAN : ManualFlushTable(p, request_sync)
    \/ \E p \in Callers : FlushLockSerialExec(p)
    \/ \E p \in Callers : FlushSchedule(p)
    \/ \E p \in Callers : FlushWaitResult(p)
    \/ \E outcome \in {"Ok", "Err", "Dropped"} : FlushTaskEnd(outcome)
    \/ \E p \in Callers : Write(p)
    \/ \E p \in Callers : WriteLockSerialExec(p)
    \/ \E p \in Callers : WriteApply(p)
    \/ \E p \in Callers : WriteEnd(p)
    \/ \E p \in Callers, table_name \in TableNames : Drop(p, table_name)
    \/ \E p \in Callers : DropMarkWal(p)
    \/ \E p \in Callers : DropApplyManifest(p)

\* Manual flushes, writes and drops of one table by concurrent callers.
SpecSerialExec == InitSerialExec /\ [][NextSerialExec]_vars

NextSyncFlush ==
    \/ \E p \in Callers, request_sync \in BOOLEAN : ManualFlushTable(p, request_sync)
    \/ \E p \in Callers : FlushLockSerialExec(p)
    \/ \E p \in Callers : FlushSchedule(p)
    \/ \E p \in Callers : FlushWaitResult(p)
    \/ \E outcome \in {"Ok", "Err", "Dropped"} : FlushTaskIo(outcome)
    \/ FlushTaskSwap
    \/ \E p \in Callers : Write(p)
    \/ \E p \in Callers : WriteLockSerialExec(p)
    \/ \E p \in Callers : WriteApply(p)
    \/ \E p \in Callers : WriteEnd(p)

\* Manual flushes and writes of one table, with flush tasks that take the
\* serial executor for their swap (spec 4.6). Every step that can be taken
\* is taken in the end: the flush I/O terminates, and the runtime polls the
\* callers and the flush task.
SpecSyncFlush ==
    /\ InitSerialExec
    /\ [][NextSyncFlush]_vars
    /\ WF_vars(NextSyncFlush)

InitFilePurger == QuietOpen /\ QuietExec /\ InitFiles /\ QuietRest

NextFilePurger ==
    \/ AddFile
    \/ \E r \in Readers : PickReadView(r)
    \/ \E r \in Readers : ReleaseReadView(r)
    \/ \E f \in FileIds : RemoveSsts(f)
    \/ ReleaseVersion
    \/ CloseQueue
    \/ StopPurger
    \/ PurgeFileLoop

\* SST file handles held by the version and by readers, and the purger.
SpecFilePurger == InitFilePurger /\ [][NextFilePurger]_vars

InitRecoverFileId ==
    QuietOpen /\ QuietExec /\ InitFiles /\ InitRecover /\ QuietClose /\ QuietCompact
    /\ QuietLate

NextRecoverFileId ==
    \/ RecoverFromAdd
    \/ ApplyVersionMeta
    \/ AllocFileId
    \/ \E f \in 1..MaxFileId : RemoveFile(f)
    \/ CloseTable

\* The file id counter of a table over recoveries, file allocations and
\* removals.
SpecRecoverFileId == InitRecoverFileId /\ [][NextRecoverFileId]_vars

InitShutdown ==
    QuietOpen /\ QuietExec /\ InitFiles /\ QuietRecover /\ InitClose /\ QuietCompact
    /\ QuietLate

NextShutdown ==
    \/ AddFile
    \/ \E f \in FileIds : RemoveSsts(f)
    \/ PurgeFileLoop
    \/ \E c \in Closers : CloseStopPurgerSend(c)
    \/ \E c \in Closers : CloseLockHandle(c)
    \/ \E c \in Closers : CloseAwaitPurger(c)
    \/ \E c \in Closers : CloseSpaceStore(c)
    \/ \E c \in Closers : CloseStopScheduler(c)

\* Instance::close by concurrent callers, with files dropped and purged
\* around it.
SpecShutdown == InitShutdown /\ [][NextShutdown]_vars

InitCompaction ==
    QuietOpen /\ QuietExec /\ InitFiles /\ QuietRecover /\ QuietClose /\ InitCompact
    /\ QuietLate

NextCompaction ==
    \/ \E time_range \in TimeRanges : AddSst(time_range)
    \/ CompactionPick
    \/ CompactionStart
    \/ \E inputs \in SUBSET (1..MaxSsts), done \in BOOLEAN : CompactionEnd(inputs, done)

\* Flushes and compactions of one table, and the reads of its version.
SpecCompaction == InitCompaction /\ [][NextCompaction]_vars

InitFileSet ==
    QuietOpen /\ QuietExec /\ InitFiles /\ QuietRecover /\ QuietClose /\ InitCompact
    /\ InitSet /\ QuietManual /\ QuietRead /\ QuietMore

NextFileSet ==
    \/ \E time_range \in TimeRanges : AddSst(time_range)
    \/ \E level \in Levels, expire_time \in ExpireTimes :
          CollectExpiredOfLevel(level, expire_time)
    \/ \E level \in Levels, expire_time \in ExpireTimes :
          HasExpiredSstOfLevel(level, expire_time)
    \/ \E level \in Levels, time_range \in TimeRanges :
          PickSstsOfLevel(level, time_range)

\* Calls on the file sets of the levels of a version that flushes fill.
SpecFileSet == InitFileSet /\ [][NextFileSet]_vars

InitManualCompact ==
    QuietOpen /\ QuietExec /\ InitFiles /\ QuietRecover /\ QuietClose /\ QuietCompact
    /\ QuietSet /\ InitManual /\ QuietRead /\ QuietMore

NextManualCompact ==
    \/ ScheduleTableCompaction
    \/ \E p \in Callers, rejected \in {"Dropped", "Err"} : ManualCompactTable(p, rejected)
    \/ \E outcome \in {"Ok", "Err", "Dropped"} : HandleCompactionRequest(outcome)
    \/ \E p \in Callers : ManualCompactWait(p)

\* Manual compactions of one table by concurrent callers, and the scheduler's
\* pending queue.
SpecManualCompact == InitManualCompact /\ [][NextManualCompact]_vars

InitReadPath ==
    QuietOpen /\ QuietExec /\ InitFiles /\ QuietRecover /\ QuietClose /\ QuietCompact
    /\ QuietSet /\ QuietManual /\ InitRead /\ QuietMore

NextReadPath ==
    \E table_options \in TableOptions, request \in ReadRequests :
        PartitionedReadFromTable(table_options, request)

\* Reads of the read views of a table, under every table option and request.
SpecReadPath == InitReadPath /\ [][NextReadPath]_vars

InitHandleSet ==
    QuietOpen /\ QuietExec /\ InitFiles /\ QuietRecover /\ QuietClose /\ QuietCompact
    /\ QuietSet /\ QuietManual /\ QuietRead /\ InitIndex /\ QuietLane /\ QuietSpace
    /\ QuietTable /\ QuietUsage

NextHandleSet ==
    \/ \E file \in FileHandles : FileHandleSetInsert(file)
    \/ \E file_ids \in SUBSET FileIds : FileHandleSetRemoveByIds(file_ids)

\* Inserts into and removals from one FileHandleSet.
SpecHandleSet == InitHandleSet /\ [][NextHandleSet]_vars

InitReadLane ==
    QuietOpen /\ QuietExec /\ InitFiles /\ QuietRecover /\ QuietClose /\ QuietCompact
    /\ QuietSet /\ QuietManual /\ QuietRead /\ QuietIndex /\ InitLane /\ QuietSpace
    /\ QuietTable /\ QuietUsage

NextReadLane ==
    \/ LaneNextBatch
    \/ LaneSend
    \/ LanePollNext
    \/ LaneDropStream

\* One lane of a read: the task spawned by iters_to_stream and the consumer
\* of its stream.
SpecReadLane == InitReadLane /\ [][NextReadLane]_vars

\* The same with the runtime polling the callers: a caller whose wait on the
\* result channel can end gets its result in the end. The scheduler owes
\* nothing.
SpecManualCompactFair ==
    /\ SpecManualCompact
    /\ \A p \in Callers : WF_vars(ManualCompactWait(p))

InitOpenSpace ==
    QuietOpen /\ QuietExec /\ InitFiles /\ QuietRecover /\ QuietClose /\ QuietCompact
    /\ QuietSet /\ QuietManual /\ QuietRead /\ QuietIndex /\ QuietLane /\ InitSpace
    /\ QuietTable /\ QuietUsage

NextOpenSpace ==
    \/ \E c \in Callers, space_id \in SpaceIds : OpenSpace(c, space_id)
    \/ \E c \in Callers : OpenSpaceWrite(c)

\* open_space by concurrent callers.
SpecOpenSpace == InitOpenSpace /\ [][NextOpenSpace]_vars

InitOpenTable ==
    QuietOpen /\ QuietExec /\ InitFiles /\ QuietRecover /\ QuietClose /\ QuietCompact
    /\ QuietSet /\ QuietManual /\ QuietRead /\ QuietIndex /\ QuietLane /\ QuietSpace
    /\ InitTable /\ QuietUsage

NextOpenTable ==
    \/ \E c \in Callers : OpenTableFind(c)
    \/ \E c \in Callers, outcome \in {"Some", "None", "Err"} :
          OpenTableRecoverMeta(c, outcome)
    \/ \E outcome \in {"Ok", "Err"} : ProcessRecoverTableCommandOf(outcome)
    \/ \E c \in Callers : OpenTableResult(c)

\* do_open_table of one table by concurrent callers, and the write worker
\* of the table.
SpecOpenTable == InitOpenTable /\ [][NextOpenTable]_vars

InitFlushTrigger ==
    QuietOpen /\ QuietExec /\ InitFiles /\ QuietRecover /\ QuietClose /\ QuietCompact
    /\ QuietSet /\ QuietManual /\ QuietRead /\ QuietIndex /\ QuietLane /\ QuietSpace
    /\ QuietTable /\ InitUsage

NextFlushTrigger == ShouldFlushInstanceCall

\* should_flush_instance on an engine with any limit and any usages.
SpecFlushTrigger == InitFlushTrigger /\ [][NextFlushTrigger]_vars

\* The same with the runtime polling the spawned task: a step of the task that
\* can be taken is taken in the end. The consumer owes nothing.
SpecReadLaneFair ==
    /\ SpecReadLane
    /\ WF_vars(LaneNextBatch)
    /\ WF_vars(LaneSend)

\* ================================================================== claims: open
\* The sequences written to the memtables of td, oldest first.
Applied(td) == td.frozen \o td.mem

\* The sequences of the Write entries of the WAL above `start` whose row group
\* has schema version `version`, in sequence order.
ExpectedReplayed(start, version) ==
    LET Matches(i) == /\ i > start
                      /\ wal[i].payload = "Write"
                      /\ wal[i].version = version
    IN  SelectSeq([i \in 1..Len(wal) |-> i], Matches)

InReplay == pc \in {"recover_cmd", "fetch", "replay", "flush_check", "failed", "recovered"}

\* C1: when the replay loop of an open ends, the memtables hold the sequences
\* of exactly the Write entries of the table's WAL in (flushed_sequence, MAX]
\* whose schema version is the table's, in sequence order and each once; the
\* loop ended on an empty batch with the range exhausted; and the table that
\* gets registered holds the same.
C1_ReplayCoversRange ==
    /\ pc = "recovered" =>
          /\ Applied(table_data) = ExpectedReplayed(read_start, table_data.schema_version)
          /\ log_entry_buf = <<>>
          /\ log_iter = Len(wal) + 1
    /\ space_tables # <<>> =>
          Applied(space_tables[1]) =
              ExpectedReplayed(read_start, space_tables[1].schema_version)

C1_Witness ==
    /\ space_tables # <<>>
    /\ read_start = 1
    /\ Len(Applied(space_tables[1])) = 2
    /\ replay_batch_size = 1

\* C7: last_sequence is at least every sequence present in the memtables (and
\* the SSTs flushed from them) of the table, in every state, the states inside
\* a replayed batch included.
C7_LastSequenceCoversData ==
    /\ \A i \in 1..Len(Applied(table_data)) :
          table_data.last_sequence >= Applied(table_data)[i]
    /\ space_tables # <<>> =>
          \A i \in 1..Len(Applied(space_tables[1])) :
              space_tables[1].last_sequence >= Applied(space_tables[1])[i]

\* C8: a replayed Write entry whose schema version is the table's is written
\* to the memtable (or the write fails the open); one of another version, older
\* or newer, is passed over: the memtables stay as they are, the open does not
\* fail and the replay goes on with the next entry.
C8_ReplaySchemaCheck ==
    [][(pc = "replay" /\ idx <= Len(log_entry_buf) /\ log_entry_buf[idx].payload = "Write")
        => IF log_entry_buf[idx].version = table_data.schema_version
           THEN \/ /\ table_data'.mem = Append(table_data.mem, log_entry_buf[idx].sequence)
                   /\ table_data'.frozen = table_data.frozen
                   /\ pc' = "flush_check"
                \/ pc' = "failed"
           ELSE /\ table_data' = table_data
                /\ pc' = "replay"
                /\ idx' = idx + 1]_vars

C8_Witness ==
    /\ space_tables # <<>>
    /\ \E i \in (read_start + 1)..Len(wal) :
          wal[i].payload = "Write" /\ wal[i].version < space_tables[1].schema_version
    /\ \E i \in (read_start + 1)..Len(wal) :
          wal[i].payload = "Write" /\ wal[i].version = space_tables[1].schema_version

\* C9: when the replay loop ends, last_sequence is the sequence of the last
\* entry of the replay range, whatever that entry is; with an empty range it
\* is the value the TableData was recovered with.
C9_LastSequenceAfterReplay ==
    pc = "recovered" =>
        IF Len(wal) > read_start
        THEN table_data.last_sequence = LogEntry(Len(wal)).sequence
        ELSE table_data.last_sequence = RecoverTableData.last_sequence

C9_Witness ==
    /\ pc = "recovered"
    /\ Len(wal) > read_start + 1
    /\ wal[Len(wal)].payload # "Write"
    /\ Len(table_data.mem) = 1

\* C10: a failed recovery returns the error with the table recorded as
\* open_failed and not registered; no TableData is registered while its
\* recovery is in progress; and every recovery, a retry included, starts from
\* a TableData rebuilt from the manifest.
C10_FailedOpen ==
    /\ open_result = "ErrRecover" => open_failed_tables /\ space_tables = <<>>
    /\ InReplay => space_tables = <<>>
    /\ pc = "recover_cmd" => table_data = RecoverTableData

C10_Witness ==
    /\ open_failed_tables
    /\ opens = 2
    /\ space_tables # <<>>
    /\ Len(Applied(space_tables[1])) >= 1
\* ================================================================== claims: executor, drop
DropPcs == {"drop_wal", "drop_manifest"}

\* C2 as stated: the highest sequence marked deletable in the table's WAL is at
\* most the table's flushed_sequence in every state, drop_table included.
C2_DeletableWithinFlushed == wal_deleted_up_to <= flushed_sequence

\* C2 (amended): until a drop_table reaches its WAL call, the highest sequence
\* marked deletable is at most flushed_sequence; from that call on the whole
\* WAL of the table is marked deletable (up to SequenceNumber::MAX).
C2_DeletableWithinFlushedUntilDrop ==
    IF drop_marked
    THEN wal_deleted_up_to = SequenceNumberMAX
    ELSE wal_deleted_up_to <= flushed_sequence

C2_Witness ==
    /\ drop_marked
    /\ flushed_sequence >= 1
    /\ last_sequence > flushed_sequence
    /\ wal_deleted_up_to = SequenceNumberMAX

\* C5 as stated: while a drop_table is at work on the table, no write and no
\* flush scheduling holds the table's serial executor.
C5_DropExcludesMutations ==
    \A p \in Callers : epc[p] \in DropPcs => serial_exec = 0

\* C6: at most one flush task of the table is in flight in every state, and
\* no step lowers the table's flushed_sequence.
C6_FlushesSerialized ==
    /\ [](Len(flush_tasks) <= 1)
    /\ [][flushed_sequence' >= flushed_sequence]_vars

C6_Witness ==
    /\ Len(flush_tasks) = 1
    /\ flushed_sequence >= 1
    /\ \E p \in Callers : epc[p] = "flush_schedule"

\* ================================================================== claims: drop_table
\* A result of a drop_table call that has ended.
DropResults == {"true", "false", "ErrWriteManifest", "Panic"}
DropReturned(p) == epc[p] = "idle" /\ eresult[p] \in DropResults

\* The table the call named was in the space and not dropped when the call
\* looked it up.
LiveAtLookup(p) ==
    drop_call[p].table_name \in SpaceTableNames /\ ~drop_call[p].was_dropped

\* C12 as stated: a drop_table call returns true exactly when the table it
\* names was in the space and not dropped; and a call that returns false has
\* trimmed no WAL and applied no manifest edit.
C12_TrueIffLiveTable ==
    \A p \in Callers :
        DropReturned(p) =>
            /\ (eresult[p] = "true") <=> LiveAtLookup(p)
            /\ eresult[p] = "false" => ~drop_call[p].trimmed /\ ~drop_call[p].edited

\* C12 (amended): a drop_table call returns false exactly when the table it
\* names was not in the space or was already dropped, and then it has trimmed
\* no WAL and applied no manifest edit; it returns true only for a table that
\* was in the space and not dropped, with the WAL trimmed and the edit
\* applied; for such a table it ends in a WriteManifest error when the
\* manifest apply fails, the WAL already trimmed, and in a panic when the WAL
\* call fails.
C12_FalseIffAbsentOrDropped ==
    \A p \in Callers :
        DropReturned(p) =>
            /\ (eresult[p] = "false") <=> ~LiveAtLookup(p)
            /\ eresult[p] = "false" => ~drop_call[p].trimmed /\ ~drop_call[p].edited
            /\ eresult[p] = "true" => drop_call[p].trimmed /\ drop_call[p].edited
            /\ eresult[p] = "ErrWriteManifest" =>
                  drop_call[p].trimmed /\ ~drop_call[p].edited
            /\ eresult[p] = "Panic" => ~drop_call[p].trimmed /\ ~drop_call[p].edited

C12_Witness ==
    \E p, q \in Callers :
        /\ DropReturned(p) /\ eresult[p] = "true"
        /\ DropReturned(q) /\ eresult[q] = "false"
        /\ drop_call[q].table_name = "absent"

\* C13: once a drop_table call on the table has returned true, every
\* drop_table call made from then on returns false at once: it does not reach
\* the WAL call or the manifest apply.
C13_DropIdempotent ==
    /\ [](\A p \in Callers :
            (DropReturned(p) /\ drop_call[p].was_dropped) =>
                /\ eresult[p] = "false"
                /\ ~drop_call[p].trimmed
                /\ ~drop_call[p].edited)
    /\ [][\A p \in Callers :
            (dropped /\ epc[p] = "idle") =>
                /\ epc'[p] \notin DropPcs
                /\ (drop_call'[p] # drop_call[p] => eresult'[p] = "false")]_vars

C13_Witness ==
    /\ dropped
    /\ wal_deleted_up_to = SequenceNumberMAX
    /\ \A q \in Callers : epc[q] \notin DropPcs
    /\ \E p \in Callers :
          /\ DropReturned(p)
          /\ eresult[p] = "false"
          /\ drop_call[p].table_name = "t"
          /\ drop_call[p].was_dropped

\* C14: a drop_table call applies the DropTable edit to the manifest only
\* after its own WAL call has marked the table's WAL deletable up to MAX: the
\* trim is done in an earlier step than the apply, and a table is never marked
\* dropped with its WAL not trimmed.
C14_WalTrimBeforeManifestEdit ==
    /\ [](/\ \A p \in Callers : drop_call[p].edited => drop_call[p].trimmed
          /\ \A p \in Callers : epc[p] = "drop_manifest" => drop_call[p].trimmed
          /\ dropped => drop_marked /\ wal_deleted_up_to = SequenceNumberMAX)
    /\ [][\A p \in Callers :
            (dropped' /\ ~dropped /\ epc'[p] # epc[p]) =>
                /\ drop_call[p].trimmed
                /\ wal_deleted_up_to = SequenceNumberMAX]_vars

C14_Witness ==
    \E p \in Callers :
        /\ epc[p] = "drop_manifest"
        /\ drop_call[p].trimmed
        /\ ~drop_call[p].edited
        /\ wal_deleted_up_to = SequenceNumberMAX
        /\ last_sequence >= 1
        /\ ~dropped

\* ================================================================== claims: files
\* C3: the object of a file stays in the store while a clone of its handle is
\* alive, be it held by the version or by a reader whose view was taken before
\* the file left the version.
C3_LiveHandleKeepsObject ==
    /\ \A f \in CreatedFiles : strong[f] > 0 => f \in store
    /\ level_files \subseteq store
    /\ \A r \in Readers : reader_view[r] \subseteq store

C3_Witness ==
    \E r \in Readers, f, g \in CreatedFiles :
        /\ f \in reader_view[r]
        /\ f \notin level_files
        /\ strong[f] = 1
        /\ g \notin store

\* C4 as stated: every file is either referenced by a live handle or has been
\* handed to the purger, exactly once; never both and never neither.
C4_ReferencedXorPurged ==
    \A f \in CreatedFiles :
        /\ purge_sent[f] <= 1
        /\ (strong[f] > 0) # (purge_sent[f] = 1)

\* C4 (amended): a purge request is sent for a file at most once and only when
\* its last handle is dropped; it is sent then unless the table's purge queue
\* is closed or the purger has exited, in which case the file is neither
\* referenced nor handed to the purger; and only a file handed to the purger
\* loses its object.
C4_PurgedOnLastDropUnlessClosed ==
    \A f \in CreatedFiles :
        /\ purge_sent[f] <= 1
        /\ purge_sent[f] = 1 => strong[f] = 0
        /\ (strong[f] = 0 /\ purge_sent[f] = 0) => (queue_closed \/ ~purger_alive)
        /\ f \notin store => purge_sent[f] = 1

C4_Witness ==
    \E f, g \in CreatedFiles :
        /\ strong[f] = 0
        /\ purge_sent[f] = 0
        /\ queue_closed
        /\ purge_sent[g] = 1
        /\ g \notin store

\* ================================================================== claims: file id counter
\* C11: once a table is recovered from the manifest, last_file_id is at least
\* the id of every SST installed in its version, and a file id allocated
\* afterwards is the id of no file of the version.
C11_LastFileIdCoversVersion ==
    /\ [](rpc = "open" => \A f \in version_files : last_file_id >= f)
    /\ [][(rpc = "open" /\ last_file_id' # last_file_id /\ rpc' = "open")
            => last_file_id' \notin version_files]_vars

C11_Witness ==
    /\ rpc = "open"
    /\ version_meta.some
    /\ version_files = version_meta.files
    /\ 1 \notin version_files
    /\ Cardinality(version_files) >= 2
    /\ last_file_id = SetMax(version_files)

\* ================================================================== claims: purge queue
\* The purge requests waiting in a channel.
PurgeRequests(chan) ==
    LET IsPurge(request) == request.kind = "Purge"
    IN  SelectSeq(chan, IsPurge)

\* C17: once the table's purge queue is closed, no step enqueues a purge
\* request, whatever handles are dropped; a file whose last handle went
\* without a request keeps its object; and closing the queue leaves the
\* requests enqueued before it in the channel, to be handled as before.
C17_ClosedQueueDiscards ==
    /\ [][queue_closed =>
            /\ purge_sent' = purge_sent
            /\ Len(PurgeRequests(purge_chan')) <= Len(PurgeRequests(purge_chan))]_vars
    /\ [][(queue_closed' /\ ~queue_closed) => purge_chan' = purge_chan]_vars
    /\ [](\A f \in CreatedFiles : (strong[f] = 0 /\ purge_sent[f] = 0) => f \in store)

C17_Witness ==
    /\ queue_closed
    /\ purger_alive
    /\ \E f, g \in CreatedFiles :
          /\ strong[f] = 0 /\ purge_sent[f] = 0 /\ f \in store
          /\ purge_sent[g] = 1
          /\ purge_chan = <<[kind |-> "Purge", file_id |-> g]>>

\* C18 as stated: a purge request leaves the purger only with its object
\* deleted: when the purger takes a request off its queue for good, the
\* object is gone from the store, a failed delete having been retried.
C18_FailedPurgeRetried ==
    [][(/\ purger_alive
        /\ purge_chan # <<>>
        /\ Head(purge_chan).kind = "Purge"
        /\ purge_chan' = Tail(purge_chan))
        => Head(purge_chan).file_id \notin store']_vars

\* ================================================================== claims: shutdown
\* C15 as stated: the compaction scheduler is stopped before the spaces are
\* closed, so in no state are the spaces closed with the scheduler running.
C15_SchedulerStoppedBeforeSpaces == spaces_closed => scheduler_stopped

C19_OneCompactionPerSst ==
    /\ [](/\ \A a, b \in running : a # b => a \cap b = {}
          /\ being_compacted = UNION running
          /\ picked.some => picked.inputs \cap being_compacted = {})
    /\ [][(picked'.some /\ ~picked.some) =>
            picked'.inputs \cap being_compacted = {}]_vars

C19_Witness ==
    /\ Cardinality(running) = 1
    /\ being_compacted # {}
    /\ picked.some
    /\ \E f \in LevelFiles(0) : ~BeingCompacted(f) /\ f.id \notin picked.inputs

\* C20 as stated: a compaction that is done leaves the rows of every read as
\* they were: for each time range the read returns the same rows before and
\* after the version edit of the compaction.
C20_CompactionKeepsReads ==
    [][(running' # running /\ ssts' # ssts) =>
        \A time_range \in TimeRanges : ReadRows(time_range)' = ReadRows(time_range)]_vars

\* ================================================================== claims: file sets
\* C26: collect_expired returns exactly the files of the set whose time range
\* is expired (exclusive_end <= expire time), whatever the set and the expire
\* time, although its scan stops at the first file that is not expired; and
\* has_expired_sst is true if and only if that result is not empty.
C26_CollectExpiredExact ==
    LET expired == {f \in level_call.files :
                      \E t \in level_call.expire_time :
                          f.time_range.exclusive_end <= t}
    IN  /\ level_call.op = "collect_expired" => level_call.result = expired
        /\ level_call.op = "has_expired_sst" => (level_call.flag <=> expired # {})

\* A scan that stopped before the end of the set: expired files were
\* collected, and files that are not expired were left.
C26_Witness ==
    /\ level_call.op = "collect_expired"
    /\ level_call.result # {}
    /\ Cardinality(level_call.files \ level_call.result) >= 2

\* C27: for level 0, files_by_time_range returns exactly the handles of the
\* set whose time range intersects the given range: the seek to the first key
\* with exclusive_end >= range.inclusive_start skips no intersecting file.
C27_FilesByTimeRangeExact ==
    (level_call.op = "pick_ssts" /\ level_call.level = 0) =>
        \A time_range \in level_call.time_range :
            level_call.result =
                {f \in level_call.files :
                    /\ f.time_range.inclusive_start < time_range.exclusive_end
                    /\ time_range.inclusive_start < f.time_range.exclusive_end}

\* A pick that skipped a file before the range and returned files that end
\* right after the start of the range.
C27_Witness ==
    /\ level_call.op = "pick_ssts"
    /\ level_call.level = 0
    /\ \E time_range \in level_call.time_range :
          /\ \E f \in level_call.files :
                f.time_range.exclusive_end <= time_range.inclusive_start
          /\ \E f \in level_call.result :
                f.time_range.exclusive_end = time_range.inclusive_start + 1

\* ================================================================== claims: read path
\* The read is made and has returned its streams.
ReadReturned == read_call.done /\ read_call.outcome = "Ok"

\* The iterators of the streams of the read, each with its place.
ReadIters ==
    UNION {{<<lane, k, read_call.streams[lane][k]>> :
               k \in 1..Len(read_call.streams[lane])} :
           lane \in 1..Len(read_call.streams)}

\* The rows the streams of the read emit, each with its place.
ReadEmitted ==
    UNION {LET rows == StreamRows(read_call.streams[lane])
           IN  {<<lane, i, rows[i]>> : i \in 1..Len(rows)} :
           lane \in 1..Len(read_call.streams)}

\* The sources of a view that hold the key at timestamp ts.
Holders(view, ts) == {s \in ViewSources(view) : InRange(ts, s.time_range)}

\* The read went the merge way.
MergeRead ==
    ReadReturned /\ (read_call.table_options.need_dedup
                        \/ read_call.request.order \in {"Asc", "Desc"})

BucketOf(source, d) == (source.time_range.inclusive_start \div d) * d

\* C22: partition_ssts_and_memtables is a true partition of the read view:
\* every SST, at its own level, and every memtable of the view is in exactly
\* one sub-view, the one keyed by its time range start truncated by the
\* segment duration, and the sub-views come in ascending bucket order; with
\* the segment duration unknown or a sampling memtable in the view there is
\* exactly one sub-view, the whole view. A chain read so emits each input row
\* exactly once.
C22_TruePartition ==
    ReadReturned =>
        LET views == read_call.read_views
            option == read_call.table_options.segment_duration
        IN  /\ IF option = {} \/ read_view.sampling_mem # {}
               THEN views = <<read_view>>
               ELSE \A d \in option :
                      /\ \A i \in 1..Len(views) :
                            /\ ViewSources(views[i]) # {}
                            /\ views[i].sampling_mem = {}
                            /\ \A s \in ViewSources(views[i]),
                                  t \in ViewSources(views[i]) :
                                    BucketOf(s, d) = BucketOf(t, d)
                      /\ \A i \in 1..Len(views), j \in 1..Len(views) :
                            i < j =>
                                \A s \in ViewSources(views[i]),
                                   t \in ViewSources(views[j]) :
                                    BucketOf(s, d) < BucketOf(t, d)
                      /\ \A m \in read_view.memtables :
                            Cardinality({i \in 1..Len(views) :
                                            m \in views[i].memtables}) = 1
                      /\ \A level \in Levels :
                            \A f \in read_view.leveled_ssts[level] :
                                Cardinality({i \in 1..Len(views) :
                                                f \in views[i].leveled_ssts[level]}) = 1
                      /\ \A i \in 1..Len(views) :
                            /\ views[i].memtables \subseteq read_view.memtables
                            /\ \A level \in Levels :
                                  views[i].leveled_ssts[level]
                                      \subseteq read_view.leveled_ssts[level]
            /\ ~MergeRead =>
                  /\ \A s \in ViewSources(read_view) :
                        \A r \in SourceRows(s) :
                            Cardinality({e \in ReadEmitted : e[3] = r}) = 1
                  /\ Cardinality(ReadEmitted)
                        = Cardinality(UNION {SourceRows(s) : s \in ViewSources(read_view)})

\* A chain read of a view partitioned into two sub-views, one of them with an
\* SST of level 1 and a memtable.
C22_Witness ==
    /\ ReadReturned
    /\ ~MergeRead
    /\ Len(read_call.read_views) = 2
    /\ \E i \in 1..2 :
          /\ read_call.read_views[i].memtables # {}
          /\ read_call.read_views[i].leveled_ssts[1] # {}
    /\ ReadEmitted # {}

C24_MergeIffDedupOrInOrder ==
    read_call.done =>
        /\ read_call.outcome = "Ok"
        /\ Cardinality(ReadIters) = Len(read_call.read_views)
        /\ IF read_call.table_options.need_dedup
                \/ read_call.request.order \in {"Asc", "Desc"}
           THEN \A it \in ReadIters : it[3].kind = "dedup"
           ELSE /\ \A it \in ReadIters : it[3].kind = "chain"
                /\ read_call.request.order = "None"

\* An ordered read of a table without dedup, which built dedup iterators.
C24_Witness ==
    /\ ReadReturned
    /\ ~read_call.table_options.need_dedup
    /\ read_call.request.order = "Asc"
    /\ \E it \in ReadIters : it[3].kind = "dedup"

\* The place in the partition of the sub-view an iterator reads.
ViewIndex(it) ==
    CHOOSE i \in 1..Len(read_call.read_views) : read_call.read_views[i] = it[3].read_view

\* C25: the list of sub-views is reversed exactly when the order is
\* descending and read_parallelism is 1, the single stream then going through
\* the sub-views in descending bucket order; in every other case the
\* sub-views keep their ascending order.
C25_ReversedIffDescSingleLane ==
    ReadReturned =>
        LET read_parallelism == read_call.request.read_parallelism
            n == Len(read_call.read_views)
        IN  \A it \in ReadIters :
                IF read_call.request.order = "Desc" /\ read_parallelism = 1
                THEN ViewIndex(it) = n + 1 - it[2]
                ELSE ViewIndex(it) = it[1] + (it[2] - 1) * read_parallelism

\* A descending read on a single stream that goes through two sub-views, the
\* later bucket first.
C25_Witness ==
    /\ ReadReturned
    /\ read_call.request.order = "Desc"
    /\ read_call.request.read_parallelism = 1
    /\ Len(read_call.read_views) = 2
    /\ \A s \in ViewSources(read_call.streams[1][1].read_view),
          t \in ViewSources(read_call.streams[1][2].read_view) :
            s.time_range.inclusive_start > t.time_range.inclusive_start

\* ================================================================== claims: manual compaction
\* C28 as stated: when the pending queue of the compaction scheduler is full
\* and a manual compaction request is rejected, the caller of the manual
\* compaction receives a SchedulerBusy error.
C28_RejectedGetsSchedulerBusy ==
    \A p \in Callers :
        (mpc[p] = "idle" /\ compact_result[p] # "none" /\ ~schedule_succeed[p])
            => compact_result[p] = "ErrSchedulerBusy"

\* ================================================================== claims: manual flush
\* C29: a manual flush with sync = true returns only after the result of the
\* flush has been received: Ok on success, ManualOp on a failed flush,
\* RecvManualOpResult when the result sender is dropped without sending. With
\* sync = false it returns as soon as the flush is scheduled, the flush still
\* in flight. (A call whose schedule_flush fails returns ManualOp with no
\* flush scheduled.)
C29_SyncFlushWaitsForResult ==
    [][\A p \in Callers :
          /\ (epc[p] = "flush_wait" /\ epc'[p] = "idle") =>
                /\ sync[p]
                /\ res_chan[p] \in {"Ok", "Err", "Dropped"}
                /\ \A i \in 1..Len(flush_tasks) : flush_tasks[i].res_sender # p
                /\ eresult'[p] = CASE res_chan[p] = "Ok" -> "Ok"
                                   [] res_chan[p] = "Err" -> "ErrManualOp"
                                   [] res_chan[p] = "Dropped" -> "ErrRecvManualOpResult"
          /\ (epc[p] = "flush_schedule" /\ epc'[p] = "idle") =>
                IF flush_tasks' = flush_tasks
                THEN eresult'[p] = "ErrManualOp"
                ELSE /\ ~sync[p]
                     /\ eresult'[p] = "Ok"
                     /\ flush_tasks' # <<>>
                     /\ flush_state' = "Flushing"
          /\ (epc[p] = "flush_schedule" /\ epc'[p] = "flush_wait") =>
                /\ sync[p]
                /\ flush_tasks' # <<>>
                /\ flush_tasks'[Len(flush_tasks')].res_sender = p
      ]_vars

\* A sync flush has returned Ok after its flush ended, and a flush without
\* sync has returned Ok with its flush still in flight.
C29_Witness ==
    \E p \in Callers, q \in Callers :
        /\ epc[p] = "idle" /\ sync[p] /\ eresult[p] = "Ok"
        /\ epc[q] = "idle" /\ ~sync[q] /\ eresult[q] = "Ok"
        /\ flush_tasks # <<>>

\* ================================================================== claims: replay flush
\* C30: when, during replay, applying an entry makes the table cross its flush
\* trigger and the flush is scheduled, replay goes on with the next entry of
\* the batch, nothing of what was applied is lost, and every remaining entry
\* of the replay range is still applied: a replay that ends after a flush has
\* applied the whole range.
C30_ReplayGoesOnAfterFlush ==
    /\ [][(pc = "flush_check" /\ ShouldFlushTable(table_data) /\ pc' # "failed") =>
             /\ pc' = "replay"
             /\ idx' = idx + 1
             /\ log_entry_buf' = log_entry_buf
             /\ log_iter' = log_iter
             /\ table_data'.frozen # <<>>
             /\ Applied(table_data') = Applied(table_data)]_vars
    /\ []((pc = "recovered" /\ table_data.frozen # <<>>) =>
             Applied(table_data) =
                 ExpectedReplayed(read_start, table_data.schema_version))

\* A replay by batches of several entries ended with entries flushed on the
\* way and an entry applied after the flush.
C30_Witness ==
    /\ pc = "recovered"
    /\ table_data.frozen # <<>>
    /\ table_data.mem # <<>>
    /\ replay_batch_size > 1

\* ================================================================== claims: purger order
\* C31: the purger handles its requests in FIFO order. Requests are only added
\* at the tail of the channel and only taken at its head; the delete of an
\* object is attempted only for the Purge request at the head; the purger task
\* ends only by taking Exit at the head, so every request sent before Exit has
\* had its delete attempted by then, and FilePurger::stop returns only after
\* the task has ended. What is behind Exit in the channel goes with the
\* receiver, and nothing is sent or deleted once the task has ended.
C31_PurgerFifoUntilExit ==
    /\ [][/\ purge_chan' # purge_chan =>
               \/ /\ Len(purge_chan') > Len(purge_chan)
                  /\ SubSeq(purge_chan', 1, Len(purge_chan)) = purge_chan
                  /\ store' = store
                  /\ purger_alive' = purger_alive
               \/ /\ purger_alive
                  /\ purge_chan # <<>>
                  /\ Head(purge_chan).kind = "Purge"
                  /\ purge_chan' = Tail(purge_chan)
                  /\ purger_alive'
                  /\ store' \in {store, store \ {Head(purge_chan).file_id}}
               \/ /\ purger_alive
                  /\ purge_chan # <<>>
                  /\ Head(purge_chan).kind = "Exit"
                  /\ purge_chan' = <<>>
                  /\ ~purger_alive'
                  /\ store' = store
          /\ (purger_alive /\ ~purger_alive') =>
                purge_chan # <<>> /\ Head(purge_chan).kind = "Exit"
          /\ \A f \in store \ store' :
                /\ purger_alive
                /\ purge_chan # <<>>
                /\ Head(purge_chan) = [kind |-> "Purge", file_id |-> f]
          /\ \A c \in Closers :
                (cpc[c] = "await_purger" /\ cpc'[c] # "await_purger") => ~purger_alive
      ]_vars
    /\ [](~purger_alive => purge_chan = <<>>)
    /\ [](\A c \in Closers :
              cpc[c] \in {"close_spaces", "stop_scheduler"} => ~purger_alive)

\* A close waits for the purger, which has deleted the object of a file sent
\* before Exit and has Exit at the head of its channel, with the request of
\* another file behind it.
C31_Witness ==
    \E f \in FileIds, g \in FileIds :
        /\ f # g
        /\ purger_alive
        /\ purge_sent[f] > 0
        /\ f \notin store
        /\ g \in store
        /\ Len(purge_chan) = 2
        /\ purge_chan[1].kind = "Exit"
        /\ purge_chan[2] = [kind |-> "Purge", file_id |-> g]
        /\ \E c \in Closers : cpc[c] = "await_purger"

C33_LaneChannelBounded ==
    /\ [](Len(lane_chan) <= RecordBatchReadBufSize)
    /\ [][/\ (lane_pc = "send" /\ lane_pc' # "send") =>
                (Len(lane_chan) < RecordBatchReadBufSize \/ ~rx_alive)
          /\ ~rx_alive =>
                /\ lane_chan' = <<>>
                /\ lane_pc = "send" => lane_iters' = Tail(lane_iters)
                /\ Len(lane_iters') <= Len(lane_iters)
      ]_vars
    /\ (~rx_alive ~> lane_pc = "done")

\* The task waits in a send on a full channel, with an iterator still to go.
C33_Witness ==
    /\ rx_alive
    /\ lane_pc = "send"
    /\ Len(lane_chan) = RecordBatchReadBufSize
    /\ Len(lane_iters) > 1

\* ================================================================== claims: open_space
\* C34: under every interleaving of concurrent open_space calls of one space
\* id, exactly one Space is made and inserted into the spaces map, every call
\* that has returned got that Space, and a Space in the map is never replaced.
C34_OneSpacePerId ==
    /\ [](\A space_id \in SpaceIds :
              /\ spaces_made[space_id] <= 1
              /\ spaces[space_id] # NoSpace <=> spaces_made[space_id] = 1)
    /\ [](\A c \in Callers :
              (space_pc[c] = "idle" /\ space_call[c].by # "none") =>
                  /\ space_call[c].space # NoSpace
                  /\ space_call[c].space = spaces[space_call[c].space_id])
    /\ [][\A space_id \in SpaceIds :
              spaces[space_id] # NoSpace => spaces'[space_id] = spaces[space_id]]_vars

\* Two calls of one space id went past the read lock together: one made the
\* Space, the other found it at its second lookup.
C34_Witness ==
    \E c \in Callers, d \in Callers :
        /\ space_pc[c] = "idle" /\ space_call[c].by = "new"
        /\ space_pc[d] = "idle" /\ space_call[d].by = "double_check"
        /\ space_call[c].space_id = space_call[d].space_id

\* ================================================================== claims: concurrent opens
\* C35: the open of a table that is already open returns the TableData the
\* space holds, and the WAL is not replayed any more once the table is
\* registered; under concurrent opens of one table id at most one TableData
\* is inserted into the space, the WAL is replayed into at most one
\* registered TableData, and every caller that gets a table gets the
\* registered one.
C35_OneTableDataPerId ==
    /\ [](/\ tables_inserted <= 1
          /\ registered \subseteq replayed
          /\ Cardinality(registered) <= 1)
    /\ [](\A c \in Callers :
              open_call[c].result = "Some" =>
                  /\ open_call[c].got # NoTable
                  /\ open_call[c].got = registered)
    /\ [][registered # NoTable =>
              /\ registered' = registered
              /\ replayed' = replayed
              /\ tables_inserted' = tables_inserted]_vars

\* Two callers found no table and made a TableData each: the WAL went into
\* one of them, and both callers have got that one.
C35_Witness ==
    \E c \in Callers, d \in Callers :
        /\ c # d
        /\ open_pc[c] = "idle" /\ open_pc[d] = "idle"
        /\ open_call[c].table_data # NoTable
        /\ open_call[d].table_data # NoTable
        /\ open_call[c].result = "Some" /\ open_call[d].result = "Some"
        /\ registered = open_call[c].table_data
        /\ open_call[d].table_data \cap replayed = {}

\* ================================================================== claims: failed drop
\* C36: when the manifest apply of the DropTable edit fails, drop_table
\* returns the WriteManifest error, the table stays registered and its
\* dropped flag stays as it was, while its WAL, marked deletable up to MAX
\* before the edit, stays marked: the trim is not taken back.
C36_FailedDropKeepsTrim ==
    /\ [][\A p \in Callers :
              (epc[p] = "drop_manifest" /\ eresult'[p] = "ErrWriteManifest") =>
                  /\ epc'[p] = "idle"
                  /\ dropped' = dropped
                  /\ wal_deleted_up_to = SequenceNumberMAX
                  /\ wal_deleted_up_to' = wal_deleted_up_to
                  /\ drop_marked /\ drop_marked']_vars
    /\ [](\A p \in Callers :
              (epc[p] = "idle" /\ eresult[p] = "ErrWriteManifest") =>
                  /\ FindTable(drop_call[p].table_name)
                  /\ ~drop_call[p].was_dropped
                  /\ drop_call[p].trimmed
                  /\ ~drop_call[p].edited
                  /\ wal_deleted_up_to = SequenceNumberMAX)

\* A drop has returned WriteManifest: the table is not dropped, and the WAL
\* entries of rows that no flush has persisted are marked deletable.
C36_Witness ==
    \E p \in Callers :
        /\ epc[p] = "idle"
        /\ eresult[p] = "ErrWriteManifest"
        /\ ~dropped
        /\ flushed_sequence < last_sequence
        /\ wal_deleted_up_to = SequenceNumberMAX

C39_PurgerStopErrorEndsClose ==
    /\ [](\A c \in Closers : close_result[c] = "ErrStopFilePurger" => cpc[c] = "idle")
    /\ [][\A c \in Closers :
            (close_result'[c] = "ErrStopFilePurger" /\ close_result[c] # "ErrStopFilePurger")
                => /\ cpc[c] = "await_purger"
                   /\ cpc'[c] = "idle"
                   /\ spaces_closed' = spaces_closed
                   /\ scheduler_stopped' = scheduler_stopped]_vars
    /\ [][scheduler_stopped' # scheduler_stopped
            => \E c \in Closers :
                   /\ cpc[c] = "stop_scheduler"
                   /\ close_result[c] = "None"
                   /\ close_result'[c] = "Ok"
                   /\ spaces_closed
                   /\ ~purger_alive]_vars

\* A close has returned StopFilePurger; the space store is open and the
\* scheduler runs.
C39_Witness ==
    \E c \in Closers :
        /\ close_result[c] = "ErrStopFilePurger"
        /\ cpc[c] = "idle"
        /\ ~spaces_closed
        /\ ~scheduler_stopped
\* C40: the result of should_flush_instance is true exactly when
\* db_write_buffer_size is above 0 and the memtable usages of all spaces add
\* up to db_write_buffer_size or more; with a db_write_buffer_size of 0 it is
\* false whatever the usages.
C40_ShouldFlushInstanceExact ==
    [][flush_instance'.called /\ ~flush_instance.called
        => /\ flush_instance'.result
                <=> /\ db_write_buffer_size > 0
                    /\ TotalMemoryUsageSpace(memtable_memory_usage) >= db_write_buffer_size
           /\ db_write_buffer_size = 0 => ~flush_instance'.result]_vars

\* The trigger was asked with the limit reached exactly, by two spaces
\* together, and said yes.
C40_Witness ==
    /\ flush_instance.called
    /\ flush_instance.result
    /\ Len(memtable_memory_usage) = 2
    /\ memtable_memory_usage[1] > 0
    /\ memtable_memory_usage[2] > 0
    /\ memtable_memory_usage[1] + memtable_memory_usage[2] = db_write_buffer_size
====
